---- MODULE Spec2Model ----
(***************************************************************************)
(* Presentation Exchange: the submission decode pipeline                   *)
(* (lib/internal/DefaultJsonParser.ts), the PresentationDefinition         *)
(* constructor (lib/types/PresentationDefinition.ts) and                   *)
(* SubmissionRequirement.allGroups (lib/types/SubmissionRequirement.ts).   *)
(*                                                                         *)
(* JSON values are records tagged by t; a JSON string is the sequence of   *)
(* its characters, so that the JSON-Path regex can be run on it.  A call   *)
(* that may throw returns [ok, v]: ok = FALSE is a thrown exception.       *)
(***************************************************************************)
EXTENDS Integers, Sequences, FiniteSets, TLC

VARIABLES
    json, pc, exLoc, exOut, result,
    dKind, dText, dBytes, dPos, dChunks, dBuf, dPc, dOut, calls,
    srStack, agOut, descs, pdArgs, pdOut,
    opName, opArg, opRet, opJson, allInstance, allCount, allSeen, ldSeen

mapVars == <<json, pc, exLoc, exOut, result>>
decVars == <<dKind, dText, dBytes, dPos, dChunks, dBuf, dPc, dOut, calls>>
defVars == <<srStack, agOut, descs, pdArgs, pdOut>>
callVars == <<opName, opArg, opRet, opJson,
              allInstance, allCount, allSeen, ldSeen>>
vars == <<json, pc, exLoc, exOut, result,
          dKind, dText, dBytes, dPos, dChunks, dBuf, dPc, dOut, calls,
          srStack, agOut, descs, pdArgs, pdOut,
          opName, opArg, opRet, opJson, allInstance, allCount, allSeen, ldSeen>>

(***************************************************************************)
(* Bounds.                                                                 *)
(***************************************************************************)
MaxNest == 1

MaxBody == 2

MaxNodes == 5

PdMaxNodes == 2

MaxDescriptors == 2

MaxNum == 2

MaxReqDepth == 2

MaxFields == 2

PsMaxNest == 2

PsMaxMaps == 2

MaxPathLen == 4

MaxBooks == 2
MaxPairBody == 2

(***************************************************************************)
(* JSON values.                                                            *)
(***************************************************************************)
Undefined == [t |-> "undefined"]

JNull == [t |-> "null"]

JStr(s) == [t |-> "string", s |-> s]

JArr(a) == [t |-> "array", a |-> a]

JObj(m) == [t |-> "object", m |-> m]

\* An object literal: the pairs <<key, value>>, a pair whose value is
\* Undefined standing for an absent key.
MkObj(pairs) ==
    LET present == {p \in pairs : p[2] # Undefined}
    IN  JObj([k \in {p[1] : p \in present} |->
                (CHOOSE p \in present : p[1] = k)[2]])

Ok(v) == [ok |-> TRUE, v |-> v]

Throw == [ok |-> FALSE, v |-> Undefined]

\* throw new Error(message)
ThrowError(message) == [ok |-> FALSE, v |-> Undefined, error |-> message]

\* Property access v[k]: a TypeError on null and undefined, the member of
\* an object, undefined for a key a value does not have.
Get(v, k) ==
    IF v.t \in {"undefined", "null"} THEN Throw
    ELSE IF v.t = "object" /\ k \in DOMAIN v.m THEN Ok(v.m[k])
    ELSE Ok(Undefined)

\* v[k] where the access is known not to throw.
Member(v, k) == Get(v, k).v

(***************************************************************************)
(* JsonPathOps.isValid: /^\$(\.\w+|\[\d+\])*/.test(path)                   *)
(***************************************************************************)
Digits == {"0", "1", "2", "3", "4", "5", "6", "7", "8", "9"}

WordChars ==
    Digits \cup {"_"} \cup
    {"a", "b", "c", "d", "e", "f", "g", "h", "i", "j", "k", "l", "m",
     "n", "o", "p", "q", "r", "s", "t", "u", "v", "w", "x", "y", "z"} \cup
    {"A", "B", "C", "D", "E", "F", "G", "H", "I", "J", "K", "L", "M",
     "N", "O", "P", "Q", "R", "S", "T", "U", "V", "W", "X", "Y", "Z"}

\* The positions j at which one segment starting at position i may end
\* (j is the position after the segment): \.\w+ or \[\d+\].
SegEnds(s, i) ==
    {j \in (i + 2)..(Len(s) + 1) :
        /\ s[i] = "."
        /\ \A k \in (i + 1)..(j - 1) : s[k] \in WordChars}
    \cup
    {j \in (i + 3)..(Len(s) + 1) :
        /\ s[i] = "["
        /\ s[j - 1] = "]"
        /\ \A k \in (i + 1)..(j - 2) : s[k] \in Digits}

\* The positions the starred group can stop at, starting from the set from.
RECURSIVE StarEnds(_, _)
StarEnds(s, from) ==
    LET next == from \cup UNION {SegEnds(s, i) : i \in {x \in from : x <= Len(s)}}
    IN  IF next = from THEN from ELSE StarEnds(s, next)

\* The positions at which a match of the whole regex, anchored at the
\* start only, can end.
RegexMatchEnds(s) ==
    IF s # <<>> /\ s[1] = "$" THEN StarEnds(s, {2}) ELSE {}

isValid(path) == RegexMatchEnds(path) # {}

(***************************************************************************)
(* The zod schemas.  A schema's parse throws on a mismatch and returns the *)
(* value with the keys the schema does not know removed.                   *)
(***************************************************************************)
\* jsonObjectSchema = z.record(z.string(), z.unknown())
jsonObjectSchema(v) == IF v.t = "object" THEN Ok(v) ELSE Throw

\* A variant of idSchema without the minimum length.
idSchemaOkAnyString(v) == v.t = "string"

\* idSchema, inputDescriptorIdSchema = z.string().min(1)
idSchemaOk(v) == v.t = "string" /\ v.s # <<>>

\* jsonPathSchema = z.string().refine(JsonPathOps.isValid)
jsonPathSchemaOk(v) == v.t = "string" /\ isValid(v.s)

RECURSIVE descriptorMapSchemaOk(_)
descriptorMapSchemaOk(v) ==
    /\ v.t = "object"
    /\ idSchemaOk(Member(v, "id"))
    /\ Member(v, "format").t = "string"
    /\ jsonPathSchemaOk(Member(v, "path"))
    /\ \/ Member(v, "path_nested") = Undefined
       \/ descriptorMapSchemaOk(Member(v, "path_nested"))

RECURSIVE descriptorMapSchemaOut(_)
descriptorMapSchemaOut(v) ==
    MkObj({<<"id", Member(v, "id")>>,
           <<"format", Member(v, "format")>>,
           <<"path", Member(v, "path")>>,
           <<"path_nested",
             IF Member(v, "path_nested") = Undefined THEN Undefined
             ELSE descriptorMapSchemaOut(Member(v, "path_nested"))>>})

presentationSubmissionSchemaOk(v) ==
    /\ v.t = "object"
    /\ idSchemaOk(Member(v, "id"))
    /\ idSchemaOk(Member(v, "definition_id"))
    /\ Member(v, "descriptor_map").t = "array"
    /\ \A i \in DOMAIN Member(v, "descriptor_map").a :
          descriptorMapSchemaOk(Member(v, "descriptor_map").a[i])

presentationSubmissionSchema(v) ==
    IF presentationSubmissionSchemaOk(v)
    THEN Ok(MkObj({<<"id", Member(v, "id")>>,
                   <<"definition_id", Member(v, "definition_id")>>,
                   <<"descriptor_map",
                     JArr([i \in DOMAIN Member(v, "descriptor_map").a |->
                            descriptorMapSchemaOut(
                                Member(v, "descriptor_map").a[i])])>>}))
    ELSE Throw

(***************************************************************************)
(* The entity classes built from a schema-checked JSON value.              *)
(***************************************************************************)
\* new Id(value), new InputDescriptorId(value): the value is held as given.
NewId(value) == [value |-> value]

\* JsonPath.fromString: a JsonPath when jsonPathSchema accepts the string,
\* undefined otherwise.
JsonPathFromString(v) ==
    IF jsonPathSchemaOk(v) THEN [t |-> "JsonPath", value |-> v.s] ELSE Undefined

\* A variant of DescriptorMap.fromJSON that checks the path of the map
\* itself only.
RECURSIVE DescriptorMapFromJSONOwnPathOnly(_)
DescriptorMapFromJSONOwnPathOnly(j) ==
    LET path == JsonPathFromString(Member(j, "path"))
        Unchecked(n) == [t |-> "DescriptorMap",
                         id |-> NewId(Member(n, "id").s),
                         format |-> Member(n, "format").s,
                         path |-> [t |-> "JsonPath",
                                   value |-> Member(n, "path").s],
                         pathNested |-> Undefined]
    IN  IF path = Undefined THEN ThrowError("Invalid JSON path")
        ELSE Ok([t |-> "DescriptorMap",
                 id |-> NewId(Member(j, "id").s),
                 format |-> Member(j, "format").s,
                 path |-> path,
                 pathNested |->
                     IF Member(j, "path_nested") = Undefined THEN Undefined
                     ELSE Unchecked(Member(j, "path_nested"))])

\* DescriptorMap.fromJSON: throws when JsonPath.fromString gives undefined;
\* the nested map goes through the same factory.
RECURSIVE DescriptorMapFromJSON(_)
DescriptorMapFromJSON(j) ==
    LET path == JsonPathFromString(Member(j, "path"))
        nested == IF Member(j, "path_nested") = Undefined THEN Ok(Undefined)
                  ELSE DescriptorMapFromJSON(Member(j, "path_nested"))
    IN  IF path = Undefined THEN ThrowError("Invalid JSON path")
        ELSE IF ~nested.ok THEN nested
        ELSE Ok([t |-> "DescriptorMap",
                 id |-> NewId(Member(j, "id").s),
                 format |-> Member(j, "format").s,
                 path |-> path,
                 pathNested |-> nested.v])

\* PresentationSubmission.fromJSON
PresentationSubmissionFromJSON(j) ==
    LET maps == [i \in DOMAIN Member(j, "descriptor_map").a |->
                    DescriptorMapFromJSON(Member(j, "descriptor_map").a[i])]
    IN  IF \E i \in DOMAIN maps : ~maps[i].ok
        THEN maps[CHOOSE i \in DOMAIN maps :
                      ~maps[i].ok /\ \A k \in 1..(i - 1) : maps[k].ok]
        ELSE Ok([t |-> "PresentationSubmission",
                 id |-> NewId(Member(j, "id").s),
                 definition_id |-> NewId(Member(j, "definition_id").s),
                 descriptor_map |-> [i \in DOMAIN maps |-> maps[i].v]])

(***************************************************************************)
(* PresentationSubmissionEmbedLocation                                     *)
(***************************************************************************)
presentationSubmissionKey == "presentation_submission"

\* A variant of EmbedLocations: the locations in another order.
EmbedLocationsOidcFirst == <<"OIDC", "VP", "JWT", "DIDComms", "CHAPI">>

\* The enum's members in declaration order, which is the order of
\* Object.values(...).filter(typeof v === 'number').
EmbedLocations == <<"JWT", "OIDC", "DIDComms", "VP", "CHAPI">>

LocationSet == {EmbedLocations[i] : i \in DOMAIN EmbedLocations}

\* jsonObjectSchema.parse(x[k]) for an x that is itself the outcome of a
\* step that may have thrown.
ParseMember(x, k) ==
    IF ~x.ok THEN Throw
    ELSE IF ~Get(x.v, k).ok THEN Throw
    ELSE jsonObjectSchema(Get(x.v, k).v)

\* A variant of detectRoot: DIDComms stops at data, CHAPI reads vp.
detectRootWrongKeys(location, j) ==
    CASE location \in {"OIDC", "VP"} -> Ok(j)
      [] location = "JWT" -> ParseMember(Ok(j), "vp")
      [] location = "DIDComms" ->
            ParseMember(ParseMember(Ok(j), "presentations~attach"), "data")
      [] location = "CHAPI" -> ParseMember(Ok(j), "vp")
      [] OTHER -> Throw

detectRoot(location, j) ==
    CASE location \in {"OIDC", "VP"} -> Ok(j)
      [] location = "JWT" -> ParseMember(Ok(j), "vp")
      [] location = "DIDComms" ->
            ParseMember(ParseMember(ParseMember(Ok(j), "presentations~attach"),
                                    "data"), "json")
      [] location = "CHAPI" -> ParseMember(Ok(j), "data")
      [] OTHER -> Throw

\* The body of extractFrom's try block.
extractFromTry(location, j) ==
    LET root == detectRoot(location, j)
    IN  IF ~root.ok THEN Throw
        ELSE IF ~Get(root.v, presentationSubmissionKey).ok THEN Throw
        ELSE presentationSubmissionSchema(
                 Get(root.v, presentationSubmissionKey).v)

\* A variant of extractFrom: no try / catch.
extractFromNoCatch(location, j) == extractFromTry(location, j)

\* extractFrom: catch (_) { return; }
extractFrom(location, j) ==
    LET r == extractFromTry(location, j)
    IN  IF r.ok THEN r ELSE Ok(Undefined)

(***************************************************************************)
(* mapToPS                                                                 *)
(***************************************************************************)
Success(v) == [kind |-> "success", value |-> v]

Failure == [kind |-> "failure", value |-> Undefined]

\* .map(extractFrom): one outcome per location, in enumeration order.
\* extractFrom has caught every exception, so each outcome is a value.
extractAll(j) == [i \in DOMAIN EmbedLocations |-> extractFrom(EmbedLocations[i], j)]

\* .find((v) => typeof v !== 'undefined'): the first defined element.
findDefined(xs) ==
    IF \E i \in DOMAIN xs : xs[i].v # Undefined
    THEN xs[CHOOSE i \in DOMAIN xs :
                /\ xs[i].v # Undefined
                /\ \A k \in 1..(i - 1) : xs[k].v = Undefined].v
    ELSE Undefined

\* A variant of pdObject: the whole input is tried first.
pdObjectWholeFirst(j) ==
    LET found == findDefined(extractAll(j))
    IN  IF presentationSubmissionSchemaOk(j) THEN presentationSubmissionSchema(j)
        ELSE IF found # Undefined THEN Ok(found) ELSE Throw

\* found || presentationSubmissionSchema.parse(json)
pdObject(j) ==
    LET found == findDefined(extractAll(j))
    IN  IF found # Undefined THEN Ok(found) ELSE presentationSubmissionSchema(j)

\* runCatching(() => PresentationSubmission.fromJSON(pdObject))
mapToPS(j) ==
    LET o == pdObject(j)
        ps == IF o.ok THEN PresentationSubmissionFromJSON(o.v) ELSE Throw
    IN  IF ps.ok THEN Success(ps.v) ELSE Failure

(***************************************************************************)
(* Inputs of the mapToPS / extractFrom specification: JSON values with a   *)
(* candidate submission (or something else, or nothing) at each embed      *)
(* location and at top level.  A valid candidate carries the tag of the    *)
(* place it sits at as its id, so that a result shows where it came from.  *)
(***************************************************************************)
GoodPath == <<"$", ".", "a">>

BadPath == <<"a">>

\* A descriptor map nested depth levels deep whose innermost path is path.
RECURSIVE DescMapJson(_, _)
DescMapJson(depth, path) ==
    MkObj({<<"id", JStr(<<"c">>)>>,
           <<"format", JStr(<<"j", "w", "t">>)>>,
           <<"path", JStr(IF depth = 0 THEN path ELSE GoodPath)>>,
           <<"note", JStr(<<"x">>)>>,
           <<"path_nested",
             IF depth = 0 THEN Undefined ELSE DescMapJson(depth - 1, path)>>})

\* A submission with descriptor maps nested MaxNest deep and a key the
\* schema does not know.
SubNested(tag, path) ==
    MkObj({<<"id", JStr(<<tag>>)>>,
           <<"definition_id", JStr(<<"d">>)>>,
           <<"descriptor_map", JArr(<<DescMapJson(MaxNest, path)>>)>>,
           <<"note", JStr(<<"x">>)>>})

\* A submission with an empty descriptor_map.
SubEmpty(tag) ==
    MkObj({<<"id", JStr(<<tag>>)>>,
           <<"definition_id", JStr(<<"d">>)>>,
           <<"descriptor_map", JArr(<<>>)>>})

\* {"id": "..."}: not a submission.
NotSub(tag) == MkObj({<<"id", JStr(<<tag>>)>>})

\* A submission but for its id, which is the empty string.
SubNoId ==
    MkObj({<<"id", JStr(<<>>)>>,
           <<"definition_id", JStr(<<"d">>)>>,
           <<"descriptor_map", JArr(<<>>)>>})

\* A submission but for the format of its descriptor map, which is a
\* number.
SubNumberFormat(tag) ==
    MkObj({<<"id", JStr(<<tag>>)>>,
           <<"definition_id", JStr(<<"d">>)>>,
           <<"descriptor_map",
             JArr(<<MkObj({<<"id", JStr(<<"c">>)>>,
                           <<"format", [t |-> "number", n |-> 1]>>,
                           <<"path", JStr(GoodPath)>>})>>)>>})

\* What may sit under presentation_submission at the place tagged tag.
Candidates(tag) ==
    {Undefined, JStr(<<"x">>), SubNested(tag, GoodPath), SubEmpty(tag),
     SubNested(tag, BadPath), NotSub(tag), SubNoId, SubNumberFormat(tag)}

FewCandidates(tag) == {Undefined, SubEmpty(tag), NotSub(tag)}

\* An envelope {presentation_submission: c}, or no object at all.
Envelopes(cands) ==
    {Undefined, JNull} \cup {MkObj({<<presentationSubmissionKey, c>>}) : c \in cands}

\* What may sit under "presentations~attach".
Attachments ==
    {Undefined, JStr(<<"x">>)}
    \cup {MkObj({<<"data", d>>}) : d \in {Undefined, JNull}}
    \cup {MkObj({<<"data", MkObj({<<"json", e>>})>>}) :
             e \in Envelopes(FewCandidates("D"))}

\* The top-level keys that make the whole input a submission, or not.
TopFields ==
    {<<Undefined, Undefined, Undefined>>,
     <<JStr(<<"W">>), Undefined, Undefined>>,
     <<JStr(<<"W">>), JStr(<<"d">>), JArr(<<>>)>>,
     <<JStr(<<>>), JStr(<<"d">>), JArr(<<>>)>>}

JsonInputs ==
    {JNull, JStr(<<"x">>), JArr(<<>>)}
    \cup
    {MkObj({<<presentationSubmissionKey, top>>,
            <<"vp", vp>>,
            <<"presentations~attach", att>>,
            <<"data", data>>,
            <<"id", f[1]>>,
            <<"definition_id", f[2]>>,
            <<"descriptor_map", f[3]>>}) :
        top \in Candidates("T"),
        vp \in Envelopes(Candidates("V")),
        att \in Attachments,
        data \in Envelopes(FewCandidates("C")),
        f \in TopFields}

NoResult == [kind |-> "none", value |-> Undefined]

NoGroups == [done |-> FALSE, groups |-> {}]

NoArgs == [called |-> FALSE, inputDescriptors |-> FALSE,
           submissionRequirements |-> FALSE]

\* No toJSON or accessor call has been made on the last returned value.
NoSecond == [op |-> "none", r |-> Ok(Undefined)]

\* No factory or constructor has been called; Rule.All.instance is unset.
CallIdle ==
    /\ opName = "none"
    /\ opArg = Undefined
    /\ opRet = Ok(Undefined)
    /\ opJson = NoSecond
    /\ allInstance = Undefined
    /\ allCount = 0
    /\ allSeen = {}
    /\ ldSeen = {}

\* Nothing of the presentation definition side has been built or called.
DefIdle ==
    /\ srStack = <<>>
    /\ agOut = NoGroups
    /\ descs = <<>>
    /\ pdArgs = NoArgs
    /\ pdOut = "none"

(***************************************************************************)
(* Specification Spec: extractFrom and mapToPS applied to a JSON value.    *)
(***************************************************************************)
\* Two calls of decodePresentationSubmission on streams, in flight at the
\* same time.
CallIds == {1, 2}

\* A call not yet made: the locals of the call do not exist yet.  amid
\* records that a chunk of this call was read while the other call was
\* between its first chunk and its done.
IdleCall ==
    [bytes |-> <<>>, pos |-> 0, chunks |-> <<>>, buf |-> <<>>,
     pc |-> "idle", out |-> NoResult, amid |-> FALSE]

DecIdle ==
    /\ calls = [i \in CallIds |-> IdleCall]
    /\ dKind = "none"
    /\ dText = <<>>
    /\ dBytes = <<>>
    /\ dPos = 0
    /\ dChunks = <<>>
    /\ dBuf = <<>>
    /\ dPc = "idle"
    /\ dOut = NoResult

Init ==
    /\ json \in JsonInputs
    /\ pc = "start"
    /\ exLoc = "none"
    /\ exOut = Ok(Undefined)
    /\ result = NoResult
    /\ DecIdle
    /\ DefIdle
    /\ CallIdle

CallExtractFrom(location) ==
    /\ pc = "start"
    /\ pc' = "extracted"
    /\ exLoc' = location
    /\ exOut' = extractFrom(location, json)
    /\ UNCHANGED <<json, result>>
    /\ UNCHANGED decVars
    /\ UNCHANGED defVars
    /\ UNCHANGED callVars

CallMapToPS ==
    /\ pc = "start"
    /\ pc' = "mapped"
    /\ result' = mapToPS(json)
    /\ UNCHANGED <<json, exLoc, exOut>>
    /\ UNCHANGED decVars
    /\ UNCHANGED defVars
    /\ UNCHANGED callVars

Next ==
    \/ \E location \in LocationSet : CallExtractFrom(location)
    \/ CallMapToPS

Spec == Init /\ [][Next]_vars

(***************************************************************************)
(* The selector table of the embed locations, as the claims state it.      *)
(***************************************************************************)
SelectorTable(location) ==
    CASE location \in {"OIDC", "VP"} -> <<>>
      [] location = "JWT" -> <<"vp">>
      [] location = "DIDComms" -> <<"presentations~attach", "data", "json">>
      [] location = "CHAPI" -> <<"data">>

\* The value reached from j along keys, every step of which must be an
\* object; Undefined when a step is missing or is no object.
RECURSIVE Walk(_, _)
Walk(j, keys) ==
    IF keys = <<>> THEN j
    ELSE IF j.t = "object" /\ Head(keys) \in DOMAIN j.m
                           /\ j.m[Head(keys)].t = "object"
         THEN Walk(j.m[Head(keys)], Tail(keys))
         ELSE Undefined

\* What sits under presentation_submission at the location's root.
EmbeddedAt(location, j) ==
    LET root == Walk(j, SelectorTable(location))
    IN  IF root.t = "object" /\ presentationSubmissionKey \in DOMAIN root.m
        THEN root.m[presentationSubmissionKey]
        ELSE Undefined

Matches(location, j) == presentationSubmissionSchemaOk(EmbeddedAt(location, j))

\* The PresentationSubmission built from a schema-valid JSON object.
BuiltFrom(x) ==
    PresentationSubmissionFromJSON(presentationSubmissionSchema(x).v).v

\* The first location of order that matches j.
FirstMatch(order, j) ==
    order[CHOOSE i \in DOMAIN order :
            /\ Matches(order[i], j)
            /\ \A k \in 1..(i - 1) : ~Matches(order[k], j)]

ClaimedOrder == <<"OIDC", "VP", "JWT", "DIDComms", "CHAPI">>

DeclaredOrder == <<"JWT", "OIDC", "DIDComms", "VP", "CHAPI">>

\* C1: mapToPS returns a success exactly when some embed location holds a
\* schema-valid presentation_submission or the whole input is a schema-valid
\* submission; the whole input is used only when no location matched; in
\* every other case the Result is a failure.
C1_SuccessIffSomeLocationOrWholeInput ==
    pc = "mapped" =>
        LET anyLoc == \E l \in LocationSet : Matches(l, json)
            whole == presentationSubmissionSchemaOk(json)
        IN  /\ result.kind \in {"success", "failure"}
            /\ (result.kind = "success") <=> (anyLoc \/ whole)
            /\ (result.kind = "failure") => result.value = Undefined
            /\ (result.kind = "success" /\ ~anyLoc) =>
                    result.value = BuiltFrom(json)
            /\ (result.kind = "success" /\ anyLoc) =>
                    \E l \in LocationSet :
                        /\ Matches(l, json)
                        /\ result.value = BuiltFrom(EmbeddedAt(l, json))

\* C1 witness: no location matches and the whole input is built.
C1_Witness ==
    /\ pc = "mapped"
    /\ result.kind = "success"
    /\ \A l \in LocationSet : ~Matches(l, json)
    /\ result.value.id.value = <<"W">>

\* C1 witness of the failure case: {"id": "W"} alone.
C1_WitnessFailure ==
    /\ pc = "mapped"
    /\ json = NotSub("W")
    /\ result.kind = "failure"

\* C2 as claimed: when several locations match, the result is built from
\* the first in the order OIDC, VP, JWT, DIDComms, CHAPI.
C2_FirstInClaimedOrder ==
    (pc = "mapped" /\ Cardinality({l \in LocationSet : Matches(l, json)}) > 1) =>
        result = Success(BuiltFrom(EmbeddedAt(FirstMatch(ClaimedOrder, json), json)))

\* C2 as amended: when several locations match, the result is built from
\* the first in the declared order JWT, OIDC, DIDComms, VP, CHAPI.
C2_FirstInDeclaredOrder ==
    (pc = "mapped" /\ Cardinality({l \in LocationSet : Matches(l, json)}) > 1) =>
        result = Success(BuiltFrom(EmbeddedAt(FirstMatch(DeclaredOrder, json), json)))

\* C2 witness: one submission at top level, another under vp, and the one
\* under vp is built.
C2_Witness ==
    /\ pc = "mapped"
    /\ Matches("OIDC", json)
    /\ Matches("JWT", json)
    /\ result.kind = "success"
    /\ result.value.id.value = <<"V">>

\* C3: extractFrom looks presentation_submission up under the root the
\* selector table gives for the location and, when what it finds there is
\* schema-valid, returns it (as the schema's parse gives it back: with the
\* same id, definition_id and descriptor maps).
C3_ExtractFromUsesSelectorTable ==
    (pc = "extracted" /\ Matches(exLoc, json)) =>
        LET found == EmbeddedAt(exLoc, json)
        IN  /\ exOut = presentationSubmissionSchema(found)
            /\ exOut.v.t = "object"
            /\ Member(exOut.v, "id") = Member(found, "id")
            /\ Member(exOut.v, "definition_id") = Member(found, "definition_id")
            /\ Len(Member(exOut.v, "descriptor_map").a)
                 = Len(Member(found, "descriptor_map").a)

\* C3 witness: a submission found three levels down, at DIDComms.
C3_Witness ==
    /\ pc = "extracted"
    /\ exLoc = "DIDComms"
    /\ Matches("DIDComms", json)
    /\ Member(exOut.v, "id") = JStr(<<"D">>)

\* C4: extractFrom never throws, and returns undefined when the root path is
\* missing, when a step of it is no object, or when presentation_submission
\* under the root is missing or schema-invalid; a miss at one location does
\* not keep mapToPS from succeeding with another.
C4_MissIsUndefinedNeverThrown ==
    /\ pc = "extracted" =>
          /\ exOut.ok
          /\ ~Matches(exLoc, json) => exOut.v = Undefined
    /\ (pc = "mapped" /\ \E l \in LocationSet : Matches(l, json)) =>
          result.kind = "success"

\* C4 witness: the input is null, so the lookup of vp itself throws.
C4_Witness ==
    /\ pc = "extracted"
    /\ exLoc = "JWT"
    /\ json = JNull
    /\ exOut = Ok(Undefined)

(***************************************************************************)
(* decodePresentationSubmission on a text or on a byte stream.             *)
(*                                                                         *)
(* Texts are sequences of characters and streams sequences of bytes over   *)
(* a small alphabet.  "P" abbreviates the ASCII run  {"id":"  , "S" the    *)
(* ASCII run  ","definition_id":"d","descriptor_map":[]}  and "E" the run  *)
(* "}  (a byte and the character it decodes to carry the same name: ASCII  *)
(* decodes byte by byte, on any chunking).  "a" is the letter a.  "C3" and *)
(* "A9" are the two bytes of U+00E9 in UTF-8; "U+E9" is that character and *)
(* "U+FFFD" the replacement character.                                     *)
(***************************************************************************)
AsciiRuns == {"P", "S", "E", "a"}

\* The characters that may stand inside a JSON string literal as they are.
StringChars == {"a", "U+E9", "U+FFFD"}

\* new TextDecoder('utf-8').decode(bytes): the whole of bytes is decoded
\* and the decoder flushed; a lead byte without its continuation byte and
\* a continuation byte without its lead byte each give U+FFFD.
RECURSIVE Utf8Decode(_)
Utf8Decode(bytes) ==
    IF bytes = <<>> THEN <<>>
    ELSE IF bytes[1] = "C3"
         THEN IF Len(bytes) >= 2 /\ bytes[2] = "A9"
              THEN <<"U+E9">> \o Utf8Decode(SubSeq(bytes, 3, Len(bytes)))
              ELSE <<"U+FFFD">> \o Utf8Decode(Tail(bytes))
    ELSE IF bytes[1] = "A9"
         THEN <<"U+FFFD">> \o Utf8Decode(Tail(bytes))
    ELSE <<bytes[1]>> \o Utf8Decode(Tail(bytes))

\* JSON.parse on the texts of this alphabet: P body S is the object
\* {id: body, definition_id: "d", descriptor_map: []}, P body E the object
\* {id: body}, and every other text is a SyntaxError.
JSONparse(text) ==
    LET n == Len(text)
        body == SubSeq(text, 2, n - 1)
    IN  IF /\ n >= 2
           /\ text[1] = "P"
           /\ text[n] \in {"S", "E"}
           /\ \A i \in DOMAIN body : body[i] \in StringChars
        THEN Ok(MkObj({<<"id", JStr(body)>>,
                       <<"definition_id",
                         IF text[n] = "S" THEN JStr(<<"d">>) ELSE Undefined>>,
                       <<"descriptor_map",
                         IF text[n] = "S" THEN JArr(<<>>) ELSE Undefined>>}))
        ELSE Throw

Rejected == [kind |-> "rejected", value |-> Undefined]

\* The string branch: return mapToPS(JSON.parse(input)).  An exception of
\* JSON.parse, thrown inside the async function, rejects its promise.
decodeString(text) ==
    LET parsed == JSONparse(text)
    IN  IF parsed.ok THEN mapToPS(parsed.v) ELSE Rejected

\* The sequences over alphabet of length at most n.
SeqsUpTo(alphabet, n) == UNION {[1..k -> alphabet] : k \in 0..n}

TextInputs ==
    {<<"P">> \o body \o tail :
        body \in SeqsUpTo({"a", "U+E9"}, MaxBody),
        tail \in {<<"S">>, <<"E">>, <<>>}}
    \cup {<<>>, <<"a">>}

StreamInputs ==
    {<<"P">> \o body \o tail :
        body \in SeqsUpTo({"a", "C3", "A9"}, MaxBody),
        tail \in {<<"S">>, <<"E">>, <<>>}}
    \cup {<<>>}

MapIdle ==
    /\ json = JNull
    /\ pc = "idle"
    /\ exLoc = "none"
    /\ exOut = Ok(Undefined)
    /\ result = NoResult

InitDecode == MapIdle /\ DecIdle /\ DefIdle /\ CallIdle

\* decodePresentationSubmission(input) with a string.
CallWithString(text) ==
    /\ dPc = "idle"
    /\ dKind' = "string"
    /\ dText' = text
    /\ dPc' = "parse"
    /\ UNCHANGED <<dBytes, dPos, dChunks, dBuf, dOut>>
    /\ UNCHANGED calls
    /\ UNCHANGED mapVars
    /\ UNCHANGED defVars
    /\ UNCHANGED callVars

\* decodePresentationSubmission(input) with a stream that will deliver
\* bytes: getReader(), new TextDecoder, result = ''.
CallWithStream(bytes) ==
    /\ dPc = "idle"
    /\ dKind' = "stream"
    /\ dBytes' = bytes
    /\ dPos' = 0
    /\ dChunks' = <<>>
    /\ dBuf' = <<>>
    /\ dPc' = "reading"
    /\ UNCHANGED <<dText, dOut>>
    /\ UNCHANGED calls
    /\ UNCHANGED mapVars
    /\ UNCHANGED defVars
    /\ UNCHANGED callVars

\* await reader.read() gives the next size bytes as one chunk:
\* result += decoder.decode(value).
ReadChunk(size) ==
    /\ dPc = "reading"
    /\ dPos + size <= Len(dBytes)
    /\ dBuf' = dBuf \o Utf8Decode(SubSeq(dBytes, dPos + 1, dPos + size))
    /\ dPos' = dPos + size
    /\ dChunks' = Append(dChunks, size)
    /\ UNCHANGED <<dKind, dText, dBytes, dPc, dOut>>
    /\ UNCHANGED calls
    /\ UNCHANGED mapVars
    /\ UNCHANGED defVars
    /\ UNCHANGED callVars

\* await reader.read() reports done: break, and the call goes on as
\* this.decodePresentationSubmission(result).
ReadDone ==
    /\ dPc = "reading"
    /\ dPos = Len(dBytes)
    /\ dText' = dBuf
    /\ dPc' = "parse"
    /\ UNCHANGED <<dKind, dBytes, dPos, dChunks, dBuf, dOut>>
    /\ UNCHANGED calls
    /\ UNCHANGED mapVars
    /\ UNCHANGED defVars
    /\ UNCHANGED callVars

\* The string branch runs to its end and the promise settles.
Settle ==
    /\ dPc = "parse"
    /\ dOut' = decodeString(dText)
    /\ dPc' = "done"
    /\ UNCHANGED <<dKind, dText, dBytes, dPos, dChunks, dBuf>>
    /\ UNCHANGED calls
    /\ UNCHANGED mapVars
    /\ UNCHANGED defVars
    /\ UNCHANGED callVars

NextDecode ==
    \/ \E text \in TextInputs : CallWithString(text)
    \/ \E bytes \in StreamInputs : CallWithStream(bytes)
    \/ \E size \in 1..(MaxBody + 2) : ReadChunk(size)
    \/ ReadDone
    \/ Settle

SpecDecode == InitDecode /\ [][NextDecode]_vars

\* C5 as claimed: a call with a text that is not well-formed JSON completes
\* with a failure Result; its promise is not rejected.
C5_MalformedTextGivesFailure ==
    (dPc = "done" /\ dKind = "string" /\ ~JSONparse(dText).ok) =>
        dOut.kind = "failure"

\* C6 as claimed: whatever the chunks, the call on a stream returns what the
\* call on the UTF-8 decoding of all its bytes returns.
C6_StreamEqualsText ==
    (dPc = "done" /\ dKind = "stream") =>
        dOut = decodeString(Utf8Decode(dBytes))

\* The scheduling of a call on a stream that ends: every await
\* reader.read() is answered, with the next chunk or with done, and the
\* continuation of an answered await is run.
FairDecode ==
    /\ WF_vars(\E size \in 1..(MaxBody + 2) : ReadChunk(size))
    /\ WF_vars(ReadDone)
    /\ WF_vars(Settle)

SpecDecodeLive == InitDecode /\ [][NextDecode]_vars /\ FairDecode

\* C28 as claimed: a call on a stream has no Result while it is reading,
\* and once the stream has reported done the call completes with a Result,
\* a success or a failure.
C28_StreamCallEndsInResult ==
    /\ [](dPc = "reading" => dOut = NoResult)
    /\ (dPc = "reading") ~> (dPc = "done" /\ dOut.kind \in {"success", "failure"})

(***************************************************************************)
(* Specification SpecPair: two calls of decodePresentationSubmission on    *)
(* two streams, their reads interleaved in any order.  reader, decoder and *)
(* result are locals of each call.                                         *)
(***************************************************************************)
\* The streams of the two calls: an id made of the bytes of U+00E9, cut
\* anywhere, in a text that ends as a submission or breaks off.
PairInputs ==
    {<<"P">> \o [n \in 1..k |-> IF n % 2 = 1 THEN "C3" ELSE "A9"] \o tail :
        k \in 0..MaxPairBody,
        tail \in {<<"S">>, <<>>}}

\* A variant in which result is one buffer that the calls share.
AppendedShared(cs, i, text) == [j \in DOMAIN cs |-> [cs[j] EXCEPT !.buf = @ \o text]]

\* result += decoder.decode(value) in call i.
Appended(cs, i, text) == [cs EXCEPT ![i].buf = @ \o text]

\* Call i is between its first chunk and its done.
MidStream(c) == c.pc = "reading" /\ c.pos > 0

\* Call i is made: getReader(), new TextDecoder, result = ''.
StartCall(i, bytes) ==
    /\ calls[i].pc = "idle"
    /\ calls' = [calls EXCEPT ![i] = [IdleCall EXCEPT !.bytes = bytes,
                                                      !.pc = "reading"]]
    /\ UNCHANGED <<dKind, dText, dBytes, dPos, dChunks, dBuf, dPc, dOut>>
    /\ UNCHANGED mapVars
    /\ UNCHANGED defVars
    /\ UNCHANGED callVars

\* await reader.read() of call i gives the next size bytes of its stream.
ReadChunkOf(i, size) ==
    /\ calls[i].pc = "reading"
    /\ calls[i].pos + size <= Len(calls[i].bytes)
    /\ calls' =
          Appended([calls EXCEPT
                       ![i].pos = @ + size,
                       ![i].chunks = Append(@, size),
                       ![i].amid = @ \/ \E j \in CallIds \ {i} :
                                            MidStream(calls[j])],
                   i,
                   Utf8Decode(SubSeq(calls[i].bytes, calls[i].pos + 1,
                                     calls[i].pos + size)))
    /\ UNCHANGED <<dKind, dText, dBytes, dPos, dChunks, dBuf, dPc, dOut>>
    /\ UNCHANGED mapVars
    /\ UNCHANGED defVars
    /\ UNCHANGED callVars

\* await reader.read() of call i reports done: break.
ReadDoneOf(i) ==
    /\ calls[i].pc = "reading"
    /\ calls[i].pos = Len(calls[i].bytes)
    /\ calls' = [calls EXCEPT ![i].pc = "parse"]
    /\ UNCHANGED <<dKind, dText, dBytes, dPos, dChunks, dBuf, dPc, dOut>>
    /\ UNCHANGED mapVars
    /\ UNCHANGED defVars
    /\ UNCHANGED callVars

\* return this.decodePresentationSubmission(result) of call i.
SettleOf(i) ==
    /\ calls[i].pc = "parse"
    /\ calls' = [calls EXCEPT ![i].out = decodeString(calls[i].buf),
                              ![i].pc = "done"]
    /\ UNCHANGED <<dKind, dText, dBytes, dPos, dChunks, dBuf, dPc, dOut>>
    /\ UNCHANGED mapVars
    /\ UNCHANGED defVars
    /\ UNCHANGED callVars

NextPair ==
    \/ \E i \in CallIds, bytes \in PairInputs : StartCall(i, bytes)
    \/ \E i \in CallIds, size \in 1..(MaxPairBody + 2) : ReadChunkOf(i, size)
    \/ \E i \in CallIds : ReadDoneOf(i)
    \/ \E i \in CallIds : SettleOf(i)

SpecPair == InitDecode /\ [][NextPair]_vars

\* The text a call running alone collects from bytes delivered in chunks
\* of the given sizes.
RECURSIVE AloneText(_, _)
AloneText(bytes, chunks) ==
    IF chunks = <<>> THEN <<>>
    ELSE Utf8Decode(SubSeq(bytes, 1, chunks[1]))
             \o AloneText(SubSeq(bytes, chunks[1] + 1, Len(bytes)),
                          Tail(chunks))

\* C29: whatever the interleaving of the reads of two calls, a call that
\* has ended has the outcome the same call has when it runs alone on the
\* same chunks, and its buffer holds the text of its own chunks only.
C29_InterleavedCallsAreIndependent ==
    \A i \in CallIds :
        /\ calls[i].buf = AloneText(calls[i].bytes, calls[i].chunks)
        /\ calls[i].pc = "done" =>
              calls[i].out = decodeString(AloneText(calls[i].bytes,
                                                    calls[i].chunks))

\* C29 witness: both calls have ended, on different streams of at least
\* two chunks each, each having read a chunk while the other was in the
\* middle of its stream; one ended in a success.
C29_Witness ==
    /\ \A i \in CallIds :
          /\ calls[i].pc = "done"
          /\ calls[i].amid
          /\ Len(calls[i].chunks) >= 2
    /\ calls[1].bytes # calls[2].bytes
    /\ calls[1].out.kind = "success"

\* ---------------------------------------------------------------------
\* Submission requirements and the PresentationDefinition constructor
\* ---------------------------------------------------------------------

Groups == {"g1", "g2", "g3"}

PdGroups == {"g1", "g2"}

IdValues == {"a", "b"}

\* new Group(value)
NewGroup(value) == [value |-> value]

\* new From.FromGroup(group)
FromGroup(group) == [type |-> "FromGroup", group |-> group]

\* new From.FromNested(nested)
FromNested(nested) == [type |-> "FromNested", nested |-> nested]

\* new SubmissionRequirement(rule, from): only the from part is inspected
\* by allGroups and by the constructor checks.
NewSubmissionRequirement(from) == [rule |-> "All", from |-> from]

\* reduce((acc, set) => new Set([...acc, ...set]), new Set())
RECURSIVE reduceUnion(_, _)
reduceUnion(sets, acc) ==
    IF sets = <<>> THEN acc
    ELSE reduceUnion(Tail(sets), acc \cup Head(sets))

\* A shallow variant of allGroups: it looks only at the direct children of
\* a nested requirement and drops the groups of deeper levels.
allGroupsShallow(instance) ==
    IF instance.from.type = "FromGroup"
    THEN {instance.from.group.value}
    ELSE {instance.from.nested[k].from.group.value :
            k \in {n \in DOMAIN instance.from.nested :
                     instance.from.nested[n].from.type = "FromGroup"}}

\* SubmissionRequirement.allGroups: flatMap over the nested requirements
\* yields one Set per child (a Set is not an array, nothing is flattened),
\* and reduce unions them element by element.
RECURSIVE allGroups(_)
allGroups(instance) ==
    IF instance.from.type = "FromGroup"
    THEN {instance.from.group.value}
    ELSE reduceUnion([k \in DOMAIN instance.from.nested |->
                        allGroups(instance.from.nested[k])], {})

\* new InputDescriptorId(value): an object; ref is its identity.
NewInputDescriptorId(ref, value) == [ref |-> ref, value |-> value]

\* new InputDescriptor(id, ..., groups): groups is undefined or a list.
NewInputDescriptorObject(id, hasGroups, groups) ==
    [id |-> id, hasGroups |-> hasGroups, groups |-> groups]

\* new Set(inputDescriptors.map(d => d.id)): a Set of objects holds one
\* entry per object identity, whatever the values inside.
distinctIds(inputDescriptors) ==
    {inputDescriptors[k].id.ref : k \in DOMAIN inputDescriptors}

\* checkInputDescriptorIds: TRUE when it returns, FALSE when it throws.
checkInputDescriptorIds(hasDescriptors, inputDescriptors) ==
    IF ~hasDescriptors THEN TRUE
    ELSE Cardinality(distinctIds(inputDescriptors)) = Len(inputDescriptors)

\* new Set(...submissionRequirements.flatMap(allGroups)): the spread hands
\* every Set to the constructor as a separate argument, and the Set
\* constructor reads its first argument only.
allGroup(submissionRequirements) ==
    IF submissionRequirements = <<>> THEN {}
    ELSE allGroups(submissionRequirements[1])

\* The group labels carried by the descriptors (groups?.forEach).
descriptorGroups(inputDescriptors) ==
    UNION {IF inputDescriptors[k].hasGroups
           THEN {inputDescriptors[k].groups[n].value :
                   n \in DOMAIN inputDescriptors[k].groups}
           ELSE {} : k \in DOMAIN inputDescriptors}

\* A variant of checkInputDescriptorGroups that treats an empty list of
\* submission requirements like an absent one.
checkInputDescriptorGroupsSkipEmpty(hasDescriptors, inputDescriptors, hasRequirements, submissionRequirements) ==
    IF ~hasRequirements \/ submissionRequirements = <<>> THEN TRUE
    ELSE IF ~hasDescriptors THEN TRUE
    ELSE descriptorGroups(inputDescriptors)
            \subseteq allGroup(submissionRequirements)

\* checkInputDescriptorGroups: TRUE when it returns, FALSE when it throws.
checkInputDescriptorGroups(hasDescriptors, inputDescriptors, hasRequirements, submissionRequirements) ==
    IF ~hasRequirements THEN TRUE
    ELSE IF ~hasDescriptors THEN TRUE
    ELSE descriptorGroups(inputDescriptors)
            \subseteq allGroup(submissionRequirements)

\* The constructor: checkInputDescriptorIds(), then
\* checkInputDescriptorGroups(); the first throw ends the construction.
constructPresentationDefinition(hasDescriptors, inputDescriptors, hasRequirements, submissionRequirements) ==
    IF ~checkInputDescriptorIds(hasDescriptors, inputDescriptors)
    THEN "duplicate-id"
    ELSE IF ~checkInputDescriptorGroups(hasDescriptors, inputDescriptors,
                                        hasRequirements, submissionRequirements)
    THEN "unreferenced-group"
    ELSE "ok"

\* Number of SubmissionRequirement objects in a tree, and in a list.
RECURSIVE Nodes(_)
RECURSIVE StackNodes(_)
Nodes(instance) ==
    IF instance.from.type = "FromGroup" THEN 1
    ELSE 1 + StackNodes(instance.from.nested)

StackNodes(stack) ==
    IF stack = <<>> THEN 0
    ELSE Nodes(Head(stack)) + StackNodes(Tail(stack))

Building == ~agOut.done /\ ~pdArgs.called

\* new SubmissionRequirement(rule, new From.FromGroup(new Group(g)))
PushFromGroup(g, maxNodes) ==
    /\ Building
    /\ StackNodes(srStack) < maxNodes
    /\ srStack' = Append(srStack,
                         NewSubmissionRequirement(FromGroup(NewGroup(g))))
    /\ UNCHANGED <<agOut, descs, pdArgs, pdOut>>
    /\ UNCHANGED mapVars
    /\ UNCHANGED decVars
    /\ UNCHANGED callVars

\* new SubmissionRequirement(rule, new From.FromNested(nested)): the last
\* k requirements built become the nested list of a new one.
PushFromNested(k, maxNodes) ==
    /\ Building
    /\ StackNodes(srStack) < maxNodes
    /\ k <= Len(srStack)
    /\ srStack' = Append(SubSeq(srStack, 1, Len(srStack) - k),
                         NewSubmissionRequirement(FromNested(
                             SubSeq(srStack, Len(srStack) - k + 1,
                                    Len(srStack)))))
    /\ UNCHANGED <<agOut, descs, pdArgs, pdOut>>
    /\ UNCHANGED mapVars
    /\ UNCHANGED decVars
    /\ UNCHANGED callVars

\* SubmissionRequirement.allGroups(instance) on the last requirement built.
CallAllGroups ==
    /\ Building
    /\ srStack # <<>>
    /\ agOut' = [done |-> TRUE, groups |-> allGroups(srStack[Len(srStack)])]
    /\ UNCHANGED <<srStack, descs, pdArgs, pdOut>>
    /\ UNCHANGED mapVars
    /\ UNCHANGED decVars
    /\ UNCHANGED callVars

NextSR ==
    \/ \E g \in Groups : PushFromGroup(g, MaxNodes)
    \/ \E k \in 0..MaxNodes : PushFromNested(k, MaxNodes)
    \/ CallAllGroups

SpecSR == InitDecode /\ [][NextSR]_vars

\* A separately built InputDescriptor, with an id object of its own, is
\* added to the list handed to the constructor.
NewInputDescriptor(value, hasGroups, groups) ==
    /\ Building
    /\ Len(descs) < MaxDescriptors
    /\ descs' = Append(descs,
                       NewInputDescriptorObject(
                           NewInputDescriptorId(Len(descs) + 1, value),
                           hasGroups, groups))
    /\ UNCHANGED <<srStack, agOut, pdArgs, pdOut>>
    /\ UNCHANGED mapVars
    /\ UNCHANGED decVars
    /\ UNCHANGED callVars

\* The same InputDescriptor object is put into the list a second time.
RepeatInputDescriptor(i) ==
    /\ Building
    /\ Len(descs) < MaxDescriptors
    /\ i \in DOMAIN descs
    /\ descs' = Append(descs, descs[i])
    /\ UNCHANGED <<srStack, agOut, pdArgs, pdOut>>
    /\ UNCHANGED mapVars
    /\ UNCHANGED decVars
    /\ UNCHANGED callVars

\* new PresentationDefinition(id, name, purpose, format, inputDescriptors,
\* submissionRequirements), each of the two lists given or undefined.
NewPresentationDefinition(hasDescriptors, hasRequirements) ==
    /\ Building
    /\ pdArgs' = [called |-> TRUE, inputDescriptors |-> hasDescriptors,
                  submissionRequirements |-> hasRequirements]
    /\ pdOut' = constructPresentationDefinition(hasDescriptors, descs,
                                                hasRequirements, srStack)
    /\ UNCHANGED <<srStack, agOut, descs>>
    /\ UNCHANGED mapVars
    /\ UNCHANGED decVars
    /\ UNCHANGED callVars

GroupLists == {<<>>} \cup {<<NewGroup(g)>> : g \in PdGroups}

NextPD ==
    \/ \E g \in PdGroups : PushFromGroup(g, PdMaxNodes)
    \/ \E k \in 0..PdMaxNodes : PushFromNested(k, PdMaxNodes)
    \/ \E value \in IdValues : NewInputDescriptor(value, FALSE, <<>>)
    \/ \E value \in IdValues, groups \in GroupLists :
           NewInputDescriptor(value, TRUE, groups)
    \/ \E i \in 1..MaxDescriptors : RepeatInputDescriptor(i)
    \/ \E hasDescriptors \in BOOLEAN, hasRequirements \in BOOLEAN :
           NewPresentationDefinition(hasDescriptors, hasRequirements)

SpecPD == InitDecode /\ [][NextPD]_vars

\* The subtrees of a set of requirements, by closing under "nested".
RECURSIVE Subtrees(_)
Subtrees(set) ==
    LET children == UNION {{t.from.nested[k] : k \in DOMAIN t.from.nested} :
                             t \in {x \in set : x.from.type = "FromNested"}}
    IN IF children \subseteq set THEN set ELSE Subtrees(set \cup children)

\* The group names at the FromGroup leaves of a requirement tree.
LeafGroups(instance) ==
    {t.from.group.value :
       t \in {x \in Subtrees({instance}) : x.from.type = "FromGroup"}}

\* The union of the leaf groups of every requirement of a list.
ClosureUnion(submissionRequirements) ==
    UNION {LeafGroups(submissionRequirements[k]) :
             k \in DOMAIN submissionRequirements}

EqualIdValues ==
    \E i \in DOMAIN descs, j \in DOMAIN descs :
        i # j /\ descs[i].id.value = descs[j].id.value

SameObjectTwice ==
    \E i \in DOMAIN descs, j \in DOMAIN descs :
        i # j /\ descs[i].id.ref = descs[j].id.ref

UnreferencedLabel ==
    descriptorGroups(descs) \ ClosureUnion(srStack) # {}

\* C7 as claimed: a construction whose inputDescriptors list holds two
\* descriptors with equal id values, the same object or two separately
\* built ones, fails with the duplicate-id error.
C7_EqualIdValuesRejected ==
    (pdArgs.called /\ pdArgs.inputDescriptors /\ EqualIdValues) =>
        pdOut = "duplicate-id"

\* C8 as claimed: a construction in which a descriptor carries a group
\* label that no submission requirement closure contains, the case of no
\* submission requirements at all included, fails with the
\* unreferenced-group error.
C8_UnreferencedGroupAlwaysRejected ==
    (pdArgs.called /\ pdArgs.inputDescriptors /\ UnreferencedLabel) =>
        pdOut = "unreferenced-group"

\* C8 as the code has it: when submissionRequirements is given (an empty
\* list included) and a descriptor carries a label that no closure
\* contains, construction fails; the error is the unreferenced-group one
\* unless the duplicate-id check, which runs first, has already thrown,
\* which needs the same descriptor object to be in the list twice.
C8_UnreferencedGroupRejectedWhenRequirementsGiven ==
    (pdArgs.called /\ pdArgs.inputDescriptors /\ pdArgs.submissionRequirements
       /\ UnreferencedLabel) =>
        /\ pdOut \in {"unreferenced-group", "duplicate-id"}
        /\ ~SameObjectTwice => pdOut = "unreferenced-group"

\* C8 witness: requirements are given and not empty, a descriptor label is
\* in none of their closures, and the constructor threw the
\* unreferenced-group error.
C8_Witness ==
    /\ pdArgs.called /\ pdArgs.inputDescriptors
    /\ pdArgs.submissionRequirements
    /\ srStack # <<>>
    /\ UnreferencedLabel
    /\ pdOut = "unreferenced-group"

\* C9 as claimed: with submissionRequirements given, the group check lets
\* every label pass that occurs in allGroups of some element of the list,
\* at any position: when all labels are in the union over the list, the
\* unreferenced-group error is not thrown.
C9_LabelOfAnyRequirementAccepted ==
    (pdArgs.called /\ pdArgs.inputDescriptors /\ pdArgs.submissionRequirements
       /\ descriptorGroups(descs) \subseteq ClosureUnion(srStack)) =>
        pdOut # "unreferenced-group"

\* C10: allGroups of a requirement tree of any depth and shape is exactly
\* the set of group names at its FromGroup leaves.
C10_AllGroupsIsLeafGroups ==
    agOut.done => agOut.groups = LeafGroups(srStack[Len(srStack)])

\* C10 witness: a requirement nesting g1 and a deeper requirement nesting
\* g2 and g3 gave {g1, g2, g3}.
C10_Witness ==
    /\ agOut.done
    /\ agOut.groups = {"g1", "g2", "g3"}
    /\ LET top == srStack[Len(srStack)]
       IN /\ top.from.type = "FromNested"
          /\ Len(top.from.nested) = 2
          /\ top.from.nested[1].from.type = "FromGroup"
          /\ top.from.nested[1].from.group.value = "g1"
          /\ top.from.nested[2].from.type = "FromNested"
          /\ Len(top.from.nested[2].from.nested) = 2

\* ---------------------------------------------------------------------
\* Rule, From and SubmissionRequirement.fromJSON
\* ---------------------------------------------------------------------

JNum(n) == [t |-> "number", n |-> n]

\* A variant of truthiness in which an empty array counts as false.
TruthyEmptyArrayFalse(v) ==
    CASE v.t = "undefined" -> FALSE
      [] v.t = "null" -> FALSE
      [] v.t = "string" -> v.s # <<>>
      [] v.t = "number" -> v.n # 0
      [] v.t = "boolean" -> v.b
      [] v.t = "array" -> v.a # <<>>
      [] OTHER -> TRUE

\* JavaScript truthiness of a JSON value, as in if (x) and x && y.
Truthy(v) ==
    CASE v.t = "undefined" -> FALSE
      [] v.t = "null" -> FALSE
      [] v.t = "string" -> v.s # <<>>
      [] v.t = "number" -> v.n # 0
      [] v.t = "boolean" -> v.b
      [] OTHER -> TRUE

RuleAll == JStr(<<"a", "l", "l">>)

RulePick == JStr(<<"p", "i", "c", "k">>)

\* The static field Rule.All.instance and the number of All objects made.
AllState == [instance |-> allInstance, count |-> allCount]

\* A variant of readResolve that makes a new All object on every call.
readResolveFresh(st) ==
    LET made == [type |-> "All", ref |-> st.count + 1]
    IN  [r |-> Ok(made),
         st |-> [instance |-> made, count |-> st.count + 1]]

\* Rule.All.readResolve: the instance is made on the first call only.
readResolve(st) ==
    IF st.instance = Undefined
    THEN LET made == [type |-> "All", ref |-> st.count + 1]
         IN  [r |-> Ok(made),
              st |-> [instance |-> made, count |-> st.count + 1]]
    ELSE [r |-> Ok(st.instance), st |-> st]

\* A variant of the Pick constructor without the sign checks on min and
\* max.
NewPickNoSignChecks(count, min, max) ==
    IF Truthy(count) /\ count.n <= 0
    THEN ThrowError("Count must be greater than zero")
    ELSE IF Truthy(min) /\ Truthy(max) /\ max.n < min.n
    THEN ThrowError("Max must be greater than or equal to Min")
    ELSE Ok([type |-> "Pick", count |-> count, min |-> min, max |-> max])

\* new Rule.Pick(count, min, max): every guard is "x && x <cmp> ..."
NewPick(count, min, max) ==
    IF Truthy(count) /\ count.n <= 0
    THEN ThrowError("Count must be greater than zero")
    ELSE IF Truthy(min) /\ min.n < 0
    THEN ThrowError("Min must be greater than or equal to zero")
    ELSE IF Truthy(max) /\ max.n < 0
    THEN ThrowError("Max must be greater than or equal to zero")
    ELSE IF Truthy(min) /\ Truthy(max) /\ max.n < min.n
    THEN ThrowError("Max must be greater than or equal to Min")
    ELSE Ok([type |-> "Pick", count |-> count, min |-> min, max |-> max])

\* Rule.fromJSON: switch (json.rule)
RuleFromJSON(j, st) ==
    IF Member(j, "rule") = RuleAll THEN readResolve(st)
    ELSE IF Member(j, "rule") = RulePick
    THEN [r |-> NewPick(Member(j, "count"), Member(j, "min"),
                        Member(j, "max")),
          st |-> st]
    ELSE [r |-> ThrowError("Invalid input"), st |-> st]

\* new Name(value), new Purpose(value)
NewName(value) == [value |-> value]

\* new SubmissionRequirement(rule, from, name, purpose)
SubmissionRequirementOf(rule, from, name, purpose) ==
    [rule |-> rule, from |-> from, name |-> name, purpose |-> purpose]

RECURSIVE SubmissionRequirementFromJSON(_, _)
RECURSIVE FromFromJSON(_, _)
RECURSIVE mapFromJSON(_, _, _)

\* A variant of the map that stops after the first element.
mapFromJSONFirstOnly(list, built, st) ==
    IF list = <<>> THEN [r |-> Ok(built), st |-> st]
    ELSE LET head == SubmissionRequirementFromJSON(Head(list), st)
         IN  IF ~head.r.ok THEN head
             ELSE [r |-> Ok(Append(built, head.r.v)), st |-> head.st]

\* json.from_nested.map((v) => SubmissionRequirement.fromJSON(v)): the
\* elements in order, the first throw ending the map.
mapFromJSON(list, built, st) ==
    IF list = <<>> THEN [r |-> Ok(built), st |-> st]
    ELSE LET head == SubmissionRequirementFromJSON(Head(list), st)
         IN  IF ~head.r.ok THEN head
             ELSE mapFromJSON(Tail(list), Append(built, head.r.v), head.st)

\* From.fromJSON
FromFromJSON(j, st) ==
    LET from == Member(j, "from")
        nested == Member(j, "from_nested")
    IN  IF ~Truthy(from) /\ ~Truthy(nested)
        THEN [r |-> ThrowError("From or FromNested must be defined"),
              st |-> st]
        ELSE IF Truthy(from) /\ Truthy(nested)
        THEN [r |-> ThrowError(
                  "From and FromNested cannot be defined at the same time"),
              st |-> st]
        ELSE IF Truthy(from)
        THEN [r |-> Ok(FromGroup(NewGroup(from.s))), st |-> st]
        ELSE LET made == mapFromJSON(nested.a, <<>>, st)
             IN  IF ~made.r.ok THEN made
                 ELSE [r |-> Ok(FromNested(made.r.v)), st |-> made.st]

\* SubmissionRequirement.fromJSON
SubmissionRequirementFromJSON(j, st) ==
    LET from == Member(j, "from")
        nested == Member(j, "from_nested")
    IN  IF \/ ~Truthy(from) /\ ~Truthy(nested)
           \/ Truthy(from) /\ Truthy(nested)
        THEN [r |-> ThrowError("From or FromNested must be defined"),
              st |-> st]
        ELSE LET rule == RuleFromJSON(j, st)
             IN  IF ~rule.r.ok THEN rule
                 ELSE LET made == FromFromJSON(j, rule.st)
                      IN  IF ~made.r.ok THEN made
                          ELSE [r |-> Ok(SubmissionRequirementOf(
                                    rule.r.v, made.r.v,
                                    IF Truthy(Member(j, "name"))
                                    THEN NewName(Member(j, "name").s)
                                    ELSE Undefined,
                                    IF Truthy(Member(j, "purpose"))
                                    THEN NewName(Member(j, "purpose").s)
                                    ELSE Undefined)),
                                st |-> made.st]

\* A variant of Rule.Pick.toJSON that puts count, min and max in an
\* object under the key rule.
RuleToJSONNested(rule) ==
    IF rule.type = "All" THEN {<<"rule", RuleAll>>}
    ELSE {<<"rule", MkObj({<<"rule", RulePick>>, <<"count", rule.count>>,
                           <<"min", rule.min>>, <<"max", rule.max>>})>>}

\* Rule.All.toJSON, Rule.Pick.toJSON: the members of the object literal.
RuleToJSON(rule) ==
    IF rule.type = "All" THEN {<<"rule", RuleAll>>}
    ELSE {<<"rule", RulePick>>, <<"count", rule.count>>,
          <<"min", rule.min>>, <<"max", rule.max>>}

RECURSIVE SubmissionRequirementToJSON(_)

\* FromGroup.toJSON, FromNested.toJSON: the members of the object literal.
FromToJSON(from) ==
    IF from.type = "FromGroup" THEN {<<"from", JStr(from.group.value)>>}
    ELSE {<<"from_nested",
            JArr([i \in DOMAIN from.nested |->
                     SubmissionRequirementToJSON(from.nested[i])])>>}

\* SubmissionRequirement.toJSON:
\* { name, purpose, ...this.from.toJSON(), ...this.rule.toJSON() }
SubmissionRequirementToJSON(sr) ==
    MkObj({<<"name", IF sr.name = Undefined THEN Undefined
                     ELSE JStr(sr.name.value)>>,
           <<"purpose", IF sr.purpose = Undefined THEN Undefined
                        ELSE JStr(sr.purpose.value)>>}
          \cup FromToJSON(sr.from) \cup RuleToJSON(sr.rule))

(***************************************************************************)
(* Inputs of the rule and requirement factories.                           *)
(***************************************************************************)
NumOpts == {Undefined} \cup {JNum(n) : n \in -1..MaxNum}

G1 == JStr(<<"g", "1">>)

G2 == JStr(<<"g", "2">>)

\* { rule, count, min, max }
RuleJson(rule, count, min, max) ==
    MkObj({<<"rule", rule>>, <<"count", count>>, <<"min", min>>,
           <<"max", max>>})

RuleJsons ==
    {RuleJson(RuleAll, Undefined, Undefined, Undefined)} \cup
    {RuleJson(RulePick, count, min, max) :
        count \in NumOpts, min \in NumOpts, max \in NumOpts}

\* The rule parts used inside requirement JSON: <<rule, count, min, max>>.
ReqRuleParts ==
    {<<RuleAll, Undefined, Undefined, Undefined>>,
     <<RulePick, Undefined, Undefined, Undefined>>,
     <<RulePick, JNum(1), JNum(0), JNum(MaxNum)>>,
     <<RulePick, JNum(0), Undefined, Undefined>>,
     <<RulePick, JNum(-1), Undefined, Undefined>>}

\* { name, from, from_nested, rule, count, min, max }
ReqJson(part, from, nested, name) ==
    MkObj({<<"rule", part[1]>>, <<"count", part[2]>>, <<"min", part[3]>>,
           <<"max", part[4]>>, <<"from", from>>, <<"from_nested", nested>>,
           <<"name", name>>})

AllPart == <<RuleAll, Undefined, Undefined, Undefined>>

ReqLeafs ==
    {ReqJson(AllPart, G1, Undefined, Undefined),
     ReqJson(AllPart, G2, Undefined, Undefined),
     ReqJson(AllPart, Undefined, Undefined, Undefined)}

RECURSIVE ReqKids(_)
RECURSIVE NestedLists(_)
\* The requirement JSON that may sit in a from_nested list, by depth.
ReqKids(d) ==
    IF d = 0 THEN ReqLeafs
    ELSE ReqLeafs \cup
         {ReqJson(AllPart, Undefined, JArr(l), Undefined) :
             l \in NestedLists(d)}

NestedLists(d) ==
    {<<>>} \cup {<<x>> : x \in ReqKids(d - 1)} \cup
    {<<x, y>> : x \in ReqLeafs, y \in ReqKids(d - 1)}

NestedOpts == {Undefined} \cup {JArr(l) : l \in NestedLists(MaxReqDepth)}

ReqInputs ==
    {ReqJson(part, from, nested, Undefined) :
        part \in ReqRuleParts, from \in {Undefined, G1},
        nested \in NestedOpts} \cup
    {ReqJson(AllPart, G1, Undefined, JStr(<<"n">>)),
     MkObj({<<"rule", RulePick>>, <<"count", JNum(1)>>,
            <<"purpose", JStr(<<"p">>)>>, <<"name", JStr(<<"n">>)>>,
            <<"from_nested",
              JArr(<<ReqJson(<<RulePick, Undefined, JNum(0), JNum(1)>>,
                             G2, Undefined, JStr(<<"m">>))>>)>>})}

FromInputs ==
    {MkObj({<<"from", from>>, <<"from_nested", nested>>}) :
        from \in {Undefined, G1}, nested \in NestedOpts}

\* The All objects a returned value shows at its top.
AllsOf(r) ==
    IF ~r.ok THEN {}
    ELSE IF "type" \in DOMAIN r.v /\ r.v.type = "All" THEN {r.v}
    ELSE IF "rule" \in DOMAIN r.v /\ r.v.rule.type = "All" THEN {r.v.rule}
    ELSE {}

\* The effect of one call on the call record and on Rule.All.instance.
Returned(name, arg, out) ==
    /\ opName' = name
    /\ opArg' = arg
    /\ opRet' = out.r
    /\ allInstance' = out.st.instance
    /\ allCount' = out.st.count
    /\ allSeen' = allSeen \cup AllsOf(out.r)
    /\ opJson' = NoSecond
    /\ UNCHANGED ldSeen
    /\ UNCHANGED mapVars
    /\ UNCHANGED decVars
    /\ UNCHANGED defVars

CallReadResolve ==
    Returned("Rule.All.readResolve", Undefined, readResolve(AllState))

CallRuleFromJSON(j) ==
    Returned("Rule.fromJSON", j, RuleFromJSON(j, AllState))

CallNewPick(count, min, max) ==
    Returned("new Rule.Pick", RuleJson(RulePick, count, min, max),
             [r |-> NewPick(count, min, max), st |-> AllState])

\* The requirement factories are called first or after readResolve, which
\* are the two values Rule.All.instance can have when they start.
CallFromFromJSON(j) ==
    /\ opName \in {"none", "Rule.All.readResolve"}
    /\ Returned("From.fromJSON", j, FromFromJSON(j, AllState))

CallSubmissionRequirementFromJSON(j) ==
    /\ opName \in {"none", "Rule.All.readResolve"}
    /\ Returned("SubmissionRequirement.fromJSON", j,
                SubmissionRequirementFromJSON(j, AllState))

\* toJSON() of the SubmissionRequirement the factory returned.
CallSubmissionRequirementToJSON ==
    /\ opName = "SubmissionRequirement.fromJSON"
    /\ opRet.ok
    /\ opJson = NoSecond
    /\ opJson' = [op |-> "toJSON",
                  r |-> Ok(SubmissionRequirementToJSON(opRet.v))]
    /\ UNCHANGED <<opName, opArg, opRet, allInstance, allCount, allSeen,
                   ldSeen>>
    /\ UNCHANGED mapVars
    /\ UNCHANGED decVars
    /\ UNCHANGED defVars

NextReq ==
    \/ CallSubmissionRequirementToJSON
    \/ CallReadResolve
    \/ \E j \in RuleJsons : CallRuleFromJSON(j)
    \/ \E count \in NumOpts, min \in NumOpts, max \in NumOpts :
           CallNewPick(count, min, max)
    \/ \E j \in FromInputs : CallFromFromJSON(j)
    \/ \E j \in ReqInputs : CallSubmissionRequirementFromJSON(j)

SpecReq == InitDecode /\ [][NextReq]_vars

Present(j, k) == Member(j, k) # Undefined

ValidRule(j) == RuleFromJSON(j, AllState).r.ok

ReturnedFrom ==
    IF opName = "From.fromJSON" THEN opRet.v ELSE opRet.v.from

\* The From values of a From and of every requirement nested below it.
FromsBelow(from) ==
    IF from.type = "FromGroup" THEN {from}
    ELSE {from} \cup
         {t.from : t \in Subtrees({from.nested[k] :
                                      k \in DOMAIN from.nested})}

RequirementFactoryReturned ==
    /\ opName \in {"From.fromJSON", "SubmissionRequirement.fromJSON"}
    /\ opRet.ok

\* C12 as claimed: every FromNested produced by From.fromJSON or
\* SubmissionRequirement.fromJSON, at any depth, holds a non-empty list.
C12_NestedNeverEmpty ==
    RequirementFactoryReturned =>
        \A f \in FromsBelow(ReturnedFrom) :
            f.type = "FromNested" => f.nested # <<>>

\* A From mirrors its JSON: a group holds the from string, a nested list
\* has one requirement per from_nested element, in order, each mirroring
\* its element.
RECURSIVE Mirrors(_, _)
Mirrors(from, j) ==
    IF from.type = "FromGroup"
    THEN Member(j, "from") = JStr(from.group.value)
    ELSE /\ Member(j, "from_nested").t = "array"
         /\ Len(from.nested) = Len(Member(j, "from_nested").a)
         /\ \A k \in DOMAIN from.nested :
               Mirrors(from.nested[k].from, Member(j, "from_nested").a[k])

\* C12 as the code has it: every FromNested produced by the factories, at
\* any depth, holds one requirement per element of its from_nested array,
\* in order; a from_nested of [] is accepted and gives the empty list.
C12_NestedMirrorsJson ==
    /\ RequirementFactoryReturned => Mirrors(ReturnedFrom, opArg)
    /\ (opName = "From.fromJSON" /\ ~Present(opArg, "from")
          /\ Member(opArg, "from_nested") = JArr(<<>>)) =>
           (opRet.ok /\ opRet.v = FromNested(<<>>))

\* C12 witness: SubmissionRequirement.fromJSON returned a requirement
\* whose nested list has two elements, the second of them a FromNested
\* with the empty list.
C12_Witness ==
    /\ opName = "SubmissionRequirement.fromJSON"
    /\ opRet.ok
    /\ opRet.v.from.type = "FromNested"
    /\ Len(opRet.v.from.nested) = 2
    /\ opRet.v.from.nested[2].from = FromNested(<<>>)

PickCall ==
    /\ opName \in {"new Rule.Pick", "Rule.fromJSON"}
    /\ Member(opArg, "rule") = RulePick

\* C13 as claimed: a Pick constructed with count present has count > 0,
\* and a count of 0 or below makes construction fail with 'Count must be
\* greater than zero'.
C13_CountPositive ==
    PickCall =>
        /\ (Present(opArg, "count") /\ Member(opArg, "count").n <= 0) =>
              (~opRet.ok /\ opRet.error = "Count must be greater than zero")
        /\ (opRet.ok /\ opRet.v.count # Undefined) => opRet.v.count.n > 0

\* C14 as claimed: a Pick constructed with min and max present has
\* max >= min, and every pair with max < min makes construction fail.
C14_MaxAtLeastMin ==
    PickCall =>
        /\ (Present(opArg, "min") /\ Present(opArg, "max")
              /\ Member(opArg, "max").n < Member(opArg, "min").n) =>
              ~opRet.ok
        /\ (opRet.ok /\ opRet.v.min # Undefined /\ opRet.v.max # Undefined)
              => opRet.v.max.n >= opRet.v.min.n

\* C15: a Pick that is constructed has min >= 0 when min is present and
\* max >= 0 when max is present; a negative min or max makes construction
\* fail.
C15_MinMaxNotNegative ==
    PickCall =>
        /\ (Present(opArg, "min") /\ Member(opArg, "min").n < 0) => ~opRet.ok
        /\ (Present(opArg, "max") /\ Member(opArg, "max").n < 0) => ~opRet.ok
        /\ (opRet.ok /\ opRet.v.min # Undefined) => opRet.v.min.n >= 0
        /\ (opRet.ok /\ opRet.v.max # Undefined) => opRet.v.max.n >= 0

\* C15 witness: a constructor call with a valid count, min = -1 and a
\* valid max threw the min error.
C15_Witness ==
    /\ opName = "new Rule.Pick"
    /\ Member(opArg, "count") = JNum(1)
    /\ Member(opArg, "min") = JNum(-1)
    /\ Member(opArg, "max") = JNum(MaxNum)
    /\ ~opRet.ok
    /\ opRet.error = "Min must be greater than or equal to zero"

\* C16: after any sequence of readResolve and Rule.fromJSON({rule: 'all'})
\* calls, every All value returned is the one stored instance: at most one
\* All object is ever made and the stored instance is never replaced.
C16_AllIsSingleton ==
    /\ allCount <= 1
    /\ allSeen \subseteq {allInstance}
    /\ (opName \in {"Rule.All.readResolve", "Rule.fromJSON"} /\ opRet.ok
          /\ opRet.v.type = "All") => opRet.v = allInstance

\* C16 witness: Rule.fromJSON({rule: 'all'}) returned the stored instance
\* after the instance had been made by an earlier call of another kind.
C16_Witness ==
    /\ opName = "Rule.fromJSON"
    /\ Member(opArg, "rule") = RuleAll
    /\ opRet.ok
    /\ opRet.v = allInstance
    /\ allCount = 1

\* ---------------------------------------------------------------------
\* Constraints, LimitDisclosure and FieldConstraint
\* ---------------------------------------------------------------------

JBool(b) == [t |-> "boolean", b |-> b]

RequiredValue == JStr(<<"r", "e", "q", "u", "i", "r", "e", "d">>)

PreferredValue == JStr(<<"p", "r", "e", "f", "e", "r", "r", "e", "d">>)

\* static REQUIRED = new LimitDisclosure('required'): ref is the identity
\* of the object.
REQUIRED ==
    [type |-> "LimitDisclosure", value |-> RequiredValue, ref |-> "REQUIRED"]

\* static PREFERRED = new LimitDisclosure('preferred')
PREFERRED ==
    [type |-> "LimitDisclosure", value |-> PreferredValue,
     ref |-> "PREFERRED"]

\* A variant of fromString that makes a new object for each call.
LimitDisclosureFromStringFresh(value) ==
    IF value \in {RequiredValue, PreferredValue}
    THEN Ok([type |-> "LimitDisclosure", value |-> value, ref |-> "new"])
    ELSE ThrowError("Invalid LimitDisclosure value")

\* LimitDisclosure.fromString: switch (value)
LimitDisclosureFromString(value) ==
    IF value = RequiredValue THEN Ok(REQUIRED)
    ELSE IF value = PreferredValue THEN Ok(PREFERRED)
    ELSE ThrowError("Invalid LimitDisclosure value")

\* new Filter(value)
NewFilter(value) == [value |-> value]

\* FieldConstraint.fromJSON
FieldConstraintFromJSON(j) ==
    [type |-> "FieldConstraint",
     paths |-> Member(j, "path"),
     id |-> IF Truthy(Member(j, "id"))
            THEN NewId(Member(j, "id").s) ELSE Undefined,
     name |-> IF Truthy(Member(j, "name"))
              THEN NewName(Member(j, "name").s) ELSE Undefined,
     purpose |-> IF Truthy(Member(j, "purpose"))
                 THEN NewName(Member(j, "purpose").s) ELSE Undefined,
     filter |-> IF Truthy(Member(j, "filter"))
                THEN NewFilter(Member(j, "filter")) ELSE Undefined,
     optional |-> Member(j, "optional"),
     intentToRetain |-> Member(j, "intent_to_retain")]

\* A variant of toJSON that writes optional only when it is true.
FieldConstraintToJSONTruthyOptional(fc) ==
    MkObj({<<"path", IF Truthy(fc.paths) THEN fc.paths ELSE Undefined>>,
           <<"id", IF fc.id # Undefined THEN JStr(fc.id.value)
                   ELSE Undefined>>,
           <<"name", IF fc.name # Undefined THEN JStr(fc.name.value)
                     ELSE Undefined>>,
           <<"purpose", IF fc.purpose # Undefined
                        THEN JStr(fc.purpose.value) ELSE Undefined>>,
           <<"filter", IF fc.filter # Undefined THEN fc.filter.value
                       ELSE Undefined>>,
           <<"optional", IF Truthy(fc.optional) THEN fc.optional
                         ELSE Undefined>>,
           <<"intent_to_retain", fc.intentToRetain>>})

\* FieldConstraint.toJSON
FieldConstraintToJSON(fc) ==
    MkObj({<<"path", IF Truthy(fc.paths) THEN fc.paths ELSE Undefined>>,
           <<"id", IF fc.id # Undefined THEN JStr(fc.id.value)
                   ELSE Undefined>>,
           <<"name", IF fc.name # Undefined THEN JStr(fc.name.value)
                     ELSE Undefined>>,
           <<"purpose", IF fc.purpose # Undefined
                        THEN JStr(fc.purpose.value) ELSE Undefined>>,
           <<"filter", IF fc.filter # Undefined THEN fc.filter.value
                       ELSE Undefined>>,
           <<"optional", fc.optional>>,
           <<"intent_to_retain", fc.intentToRetain>>})

\* z.string().min(1): nameSchema, purposeSchema
nonEmptyStringOk(v) == v.t = "string" /\ v.s # <<>>

\* An optional key of a z.object: absent, or accepted by the schema.
Optional(v, ok) == v = Undefined \/ ok

\* fieldConstraintSchema
fieldConstraintSchemaOk(v) ==
    /\ v.t = "object"
    /\ Optional(Member(v, "path"),
                /\ Member(v, "path").t = "array"
                /\ Member(v, "path").a # <<>>
                /\ \A k \in DOMAIN Member(v, "path").a :
                      jsonPathSchemaOk(Member(v, "path").a[k]))
    /\ Optional(Member(v, "id"), idSchemaOk(Member(v, "id")))
    /\ Optional(Member(v, "name"), nonEmptyStringOk(Member(v, "name")))
    /\ Optional(Member(v, "purpose"), nonEmptyStringOk(Member(v, "purpose")))
    /\ Optional(Member(v, "filter"), Member(v, "filter").t = "object")
    /\ Optional(Member(v, "optional"), Member(v, "optional").t = "boolean")
    /\ Optional(Member(v, "intent_to_retain"),
                Member(v, "intent_to_retain").t = "boolean")

\* The output of fieldConstraintSchema: the keys of the schema only.
fieldConstraintSchemaOut(v) ==
    MkObj({<<"path", Member(v, "path")>>,
           <<"id", Member(v, "id")>>,
           <<"name", Member(v, "name")>>,
           <<"purpose", Member(v, "purpose")>>,
           <<"filter", Member(v, "filter")>>,
           <<"optional", Member(v, "optional")>>,
           <<"intent_to_retain", Member(v, "intent_to_retain")>>})

\* fieldsSchema.parse: createNonEmptySetSchema(fieldConstraintSchema)
fieldsSchema(v) ==
    IF /\ v.t = "array"
       /\ v.a # <<>>
       /\ \A k \in DOMAIN v.a : fieldConstraintSchemaOk(v.a[k])
    THEN Ok(JArr([k \in DOMAIN v.a |-> fieldConstraintSchemaOut(v.a[k])]))
    ELSE Throw

\* new Constraints.Fields(fieldConstraints)
NewFields(fieldConstraints) ==
    IF ~Truthy(fieldConstraints) \/ Len(fieldConstraints.a) = 0
    THEN ThrowError("fieldConstraints is required")
    ELSE Ok([type |-> "Fields", fieldConstraints |-> fieldConstraints])

\* new Constraints.FieldsAndDisclosure(fieldConstraints, limitDisclosure)
NewFieldsAndDisclosure(fieldConstraints, limitDisclosure) ==
    IF ~Truthy(fieldConstraints) \/ Len(fieldConstraints.a) = 0
    THEN ThrowError("fieldConstraints is required")
    ELSE Ok([type |-> "FieldsAndDisclosure",
             fieldConstraints |-> fieldConstraints,
             limitDisclosure |-> limitDisclosure])

\* Constraints.fields
ConstraintsFields(instance) ==
    IF instance.type \in {"Fields", "FieldsAndDisclosure"}
    THEN instance.fieldConstraints
    ELSE JArr(<<>>)

\* Constraints.limitDisclosure
ConstraintsLimitDisclosure(instance) ==
    IF instance.type = "LimitDisclosure" THEN instance
    ELSE IF instance.type = "FieldsAndDisclosure"
    THEN instance.limitDisclosure
    ELSE Undefined

\* A variant of Constraints.of that ignores limitDisclosure when fields
\* are given.
ConstraintsOfFieldsFirst(fs, limitDisclosure) ==
    IF Truthy(fs) /\ Len(fs.a) > 0 THEN NewFields(fs)
    ELSE IF ~Truthy(fs) /\ limitDisclosure # Undefined
    THEN Ok(limitDisclosure)
    ELSE Ok(Undefined)

\* Constraints.of
ConstraintsOf(fs, limitDisclosure) ==
    IF Truthy(fs) /\ Len(fs.a) > 0
    THEN IF limitDisclosure # Undefined
         THEN NewFieldsAndDisclosure(fs, limitDisclosure)
         ELSE NewFields(fs)
    ELSE IF ~Truthy(fs) /\ limitDisclosure # Undefined
    THEN Ok(limitDisclosure)
    ELSE Ok(Undefined)

\* json.fields.map((v) => FieldConstraint.fromJSON(v))
mapFieldConstraints(fields) ==
    JArr([k \in DOMAIN fields.a |-> FieldConstraintFromJSON(fields.a[k])])

\* Constraints.fromJSON
ConstraintsFromJSON(j) ==
    LET fields == Member(j, "fields")
        limit == Member(j, "limit_disclosure")
    IN  IF Truthy(fields) /\ Truthy(limit)
        THEN LET ld == LimitDisclosureFromString(limit)
             IN  IF ~ld.ok THEN ld
                 ELSE NewFieldsAndDisclosure(mapFieldConstraints(fields),
                                             ld.v)
        ELSE IF Truthy(fields) THEN NewFields(mapFieldConstraints(fields))
        ELSE IF Truthy(limit) THEN LimitDisclosureFromString(limit)
        ELSE ThrowError("Invalid Constraints JSON")

\* fields: fieldsSchema.parse(this.fieldConstraints.map(f => f.toJSON()))
fieldsToJSON(fieldConstraints) ==
    fieldsSchema(JArr([k \in DOMAIN fieldConstraints.a |->
                         FieldConstraintToJSON(fieldConstraints.a[k])]))

\* toJSON of Fields, LimitDisclosure and FieldsAndDisclosure
ConstraintsToJSON(instance) ==
    IF instance.type = "LimitDisclosure"
    THEN Ok(MkObj({<<"limit_disclosure", instance.value>>}))
    ELSE LET fields == fieldsToJSON(instance.fieldConstraints)
         IN  IF ~fields.ok THEN Throw
             ELSE IF instance.type = "Fields"
             THEN Ok(MkObj({<<"fields", fields.v>>}))
             ELSE Ok(MkObj({<<"limit_disclosure",
                              instance.limitDisclosure.value>>,
                            <<"fields", fields.v>>}))

(***************************************************************************)
(* Inputs of the constraints factories.                                    *)
(***************************************************************************)
\* Field constraint JSON accepted by fieldConstraintSchema.
FieldJsons ==
    {MkObj({}),
     MkObj({<<"path", JArr(<<JStr(GoodPath)>>)>>,
            <<"optional", JBool(FALSE)>>}),
     MkObj({<<"id", JStr(<<"i">>)>>, <<"name", JStr(<<"n">>)>>,
            <<"purpose", JStr(<<"p">>)>>,
            <<"filter", MkObj({<<"type", JStr(<<"s">>)>>})>>,
            <<"intent_to_retain", JBool(TRUE)>>})}

FieldJsonLists == SeqsUpTo(FieldJsons, MaxFields)

LimitStrings ==
    {RequiredValue, PreferredValue, JStr(<<"x">>), JStr(<<>>)}

ConstraintsInputs ==
    {MkObj({<<"fields", fields>>, <<"limit_disclosure", limit>>}) :
        fields \in {Undefined} \cup {JArr(l) : l \in FieldJsonLists},
        limit \in {Undefined, RequiredValue, PreferredValue, JStr(<<"x">>)}}

\* The fs arguments of Constraints.of: undefined or a list of field
\* constraints, the empty list included.
FieldLists ==
    {Undefined} \cup {mapFieldConstraints(JArr(l)) : l \in FieldJsonLists}

\* The LimitDisclosure objects a returned value shows.
LimitsOf(r) ==
    IF ~r.ok \/ r.v = Undefined THEN {}
    ELSE {ConstraintsLimitDisclosure(r.v)} \ {Undefined}

\* The effect of one constraints call on the call record.
ReturnedConstraints(name, arg, out) ==
    /\ opName' = name
    /\ opArg' = arg
    /\ opRet' = out
    /\ opJson' = NoSecond
    /\ ldSeen' = ldSeen \cup LimitsOf(out)
    /\ UNCHANGED <<allInstance, allCount, allSeen>>

CallLimitDisclosureFromString(value) ==
    /\ ReturnedConstraints("LimitDisclosure.fromString", value,
                           LimitDisclosureFromString(value))
    /\ UNCHANGED mapVars
    /\ UNCHANGED decVars
    /\ UNCHANGED defVars

CallConstraintsOf(fs, limitDisclosure) ==
    /\ ReturnedConstraints("Constraints.of",
                           [fs |-> fs, limitDisclosure |-> limitDisclosure],
                           ConstraintsOf(fs, limitDisclosure))
    /\ UNCHANGED mapVars
    /\ UNCHANGED decVars
    /\ UNCHANGED defVars

CallConstraintsFromJSON(j) ==
    /\ ReturnedConstraints("Constraints.fromJSON", j,
                           ConstraintsFromJSON(j))
    /\ UNCHANGED mapVars
    /\ UNCHANGED decVars
    /\ UNCHANGED defVars

HoldsConstraints ==
    /\ opName \in {"Constraints.of", "Constraints.fromJSON",
                   "LimitDisclosure.fromString"}
    /\ opRet.ok
    /\ opRet.v # Undefined
    /\ opJson = NoSecond

\* toJSON() of the value the last call returned.
CallConstraintsToJSON ==
    /\ HoldsConstraints
    /\ opJson' = [op |-> "toJSON", r |-> ConstraintsToJSON(opRet.v)]
    /\ UNCHANGED <<opName, opArg, opRet, allInstance, allCount, allSeen,
                   ldSeen>>
    /\ UNCHANGED mapVars
    /\ UNCHANGED decVars
    /\ UNCHANGED defVars

\* Constraints.fields and Constraints.limitDisclosure of the value the
\* last call returned.
CallAccessors ==
    /\ HoldsConstraints
    /\ opJson' = [op |-> "accessors",
                  r |-> Ok([fields |-> ConstraintsFields(opRet.v),
                            limitDisclosure |->
                                ConstraintsLimitDisclosure(opRet.v)])]
    /\ UNCHANGED <<opName, opArg, opRet, allInstance, allCount, allSeen,
                   ldSeen>>
    /\ UNCHANGED mapVars
    /\ UNCHANGED decVars
    /\ UNCHANGED defVars

NextCons ==
    \/ \E value \in LimitStrings : CallLimitDisclosureFromString(value)
    \/ \E fs \in FieldLists,
          limitDisclosure \in {Undefined, REQUIRED, PREFERRED} :
           CallConstraintsOf(fs, limitDisclosure)
    \/ \E j \in ConstraintsInputs : CallConstraintsFromJSON(j)
    \/ CallConstraintsToJSON
    \/ CallAccessors

SpecCons == InitDecode /\ [][NextCons]_vars

\* C17: after any sequence of LimitDisclosure.fromString and
\* Constraints.fromJSON calls every LimitDisclosure obtained is REQUIRED
\* or PREFERRED, equal values being the identical instance, and
\* fromString fails for any other string.
C17_LimitDisclosureTwoInstances ==
    /\ ldSeen \subseteq {REQUIRED, PREFERRED}
    /\ \A a \in ldSeen, b \in ldSeen : a.value = b.value => a.ref = b.ref
    /\ (opName = "LimitDisclosure.fromString"
          /\ opArg \notin {RequiredValue, PreferredValue}) => ~opRet.ok
    /\ (opName = "LimitDisclosure.fromString" /\ opArg = RequiredValue)
          => opRet = Ok(REQUIRED)
    /\ (opName = "LimitDisclosure.fromString" /\ opArg = PreferredValue)
          => opRet = Ok(PREFERRED)

\* C17 witness: both instances have been obtained, the last one through
\* Constraints.fromJSON with fields.
C17_Witness ==
    /\ ldSeen = {REQUIRED, PREFERRED}
    /\ opName = "Constraints.fromJSON"
    /\ opRet.ok
    /\ opRet.v.type = "FieldsAndDisclosure"

\* C18: for fs absent or non-empty and limitDisclosure absent or one of
\* the two values, Constraints.of follows the precedence table, and on a
\* result that is not undefined Constraints.fields gives back the field
\* list (the empty list when there is none) and
\* Constraints.limitDisclosure the limitDisclosure (undefined when there
\* is none).
C18_OfFollowsTable ==
    (opName = "Constraints.of" /\ opArg.fs # JArr(<<>>)) =>
        LET fs == opArg.fs
            ld == opArg.limitDisclosure
        IN  /\ opRet.ok
            /\ (fs # Undefined /\ ld # Undefined) =>
                  opRet.v = [type |-> "FieldsAndDisclosure",
                             fieldConstraints |-> fs,
                             limitDisclosure |-> ld]
            /\ (fs # Undefined /\ ld = Undefined) =>
                  opRet.v = [type |-> "Fields", fieldConstraints |-> fs]
            /\ (fs = Undefined /\ ld # Undefined) => opRet.v = ld
            /\ (fs = Undefined /\ ld = Undefined) => opRet.v = Undefined
            /\ opJson.op = "accessors" =>
                  /\ opJson.r.v.fields =
                        (IF fs = Undefined THEN JArr(<<>>) ELSE fs)
                  /\ opJson.r.v.limitDisclosure = ld

\* C18 witness: of was given two field constraints and PREFERRED, and the
\* accessors were applied to the FieldsAndDisclosure it returned.
C18_Witness ==
    /\ opName = "Constraints.of"
    /\ opArg.fs # Undefined
    /\ Len(opArg.fs.a) = 2
    /\ opArg.limitDisclosure = PREFERRED
    /\ opRet.v.type = "FieldsAndDisclosure"
    /\ opJson.op = "accessors"

ValidLimit(v) == v \in {RequiredValue, PreferredValue}

DescriptorMapToJSONShallow(dm) ==
    MkObj({<<"id", JStr(dm.id.value)>>,
           <<"format", JStr(dm.format)>>,
           <<"path", JStr(dm.path.value)>>,
           <<"path_nested",
             IF dm.pathNested = Undefined THEN Undefined
             ELSE MkObj({<<"id", JStr(dm.pathNested.id.value)>>,
                         <<"format", JStr(dm.pathNested.format)>>,
                         <<"path", JStr(dm.pathNested.path.value)>>})>>})

\* DescriptorMap.toJSON: path_nested is this.pathNested?.toJSON()
RECURSIVE DescriptorMapToJSON(_)
DescriptorMapToJSON(dm) ==
    MkObj({<<"id", JStr(dm.id.value)>>,
           <<"format", JStr(dm.format)>>,
           <<"path", JStr(dm.path.value)>>,
           <<"path_nested",
             IF dm.pathNested = Undefined THEN Undefined
             ELSE DescriptorMapToJSON(dm.pathNested)>>})

\* PresentationSubmission.toJSON: presentationSubmissionSchema.parse of
\* the object written from the three members.
PresentationSubmissionToJSON(ps) ==
    presentationSubmissionSchema(
        MkObj({<<"id", JStr(ps.id.value)>>,
               <<"definition_id", JStr(ps.definition_id.value)>>,
               <<"descriptor_map",
                 JArr([i \in DOMAIN ps.descriptor_map |->
                          DescriptorMapToJSON(ps.descriptor_map[i])])>>}))

\* The shapes of descriptor map JSON: as the schema describes it, with an
\* empty format, with a key the schema does not know, with a path that is
\* not a JSONPath.
MapShapes == {"plain", "noFormat", "extraKey", "badPath"}

\* A descriptor map JSON nested depth levels deep, the innermost map of
\* the given shape.
RECURSIVE PsMapJson(_, _)
PsMapJson(depth, shape) ==
    IF depth = 0
    THEN MkObj({<<"id", JStr(<<"c">>)>>,
                <<"format", JStr(IF shape = "noFormat" THEN <<>>
                                 ELSE <<"j", "w", "t">>)>>,
                <<"path", JStr(IF shape = "badPath" THEN BadPath
                               ELSE GoodPath)>>,
                <<"note", IF shape = "extraKey" THEN JStr(<<"x">>)
                          ELSE Undefined>>})
    ELSE MkObj({<<"id", JStr(<<"b">>)>>,
                <<"format", JStr(<<"l", "d", "p">>)>>,
                <<"path", JStr(<<"$">>)>>,
                <<"path_nested", PsMapJson(depth - 1, shape)>>})

PsMapJsons == {PsMapJson(depth, shape) : depth \in 0..PsMaxNest,
                                         shape \in MapShapes}

\* Presentation submission JSON: zero to PsMaxMaps descriptor maps, with
\* or without a top-level key the schema does not know; and one whose id
\* is the empty string.
PsInputs ==
    {MkObj({<<"id", JStr(<<"a">>)>>,
            <<"definition_id", JStr(<<"d">>)>>,
            <<"descriptor_map", JArr(l)>>,
            <<"note", note>>}) :
        l \in SeqsUpTo(PsMapJsons, PsMaxMaps),
        note \in {Undefined, JStr(<<"x">>)}}
    \cup {MkObj({<<"id", JStr(<<>>)>>,
                 <<"definition_id", JStr(<<"d">>)>>,
                 <<"descriptor_map", JArr(<<>>)>>})}

\* PresentationSubmission.fromJSON(j)
CallPresentationSubmissionFromJSON(j) ==
    /\ opName = "none"
    /\ opName' = "PresentationSubmission.fromJSON"
    /\ opArg' = j
    /\ opRet' = PresentationSubmissionFromJSON(j)
    /\ opJson' = NoSecond
    /\ UNCHANGED <<allInstance, allCount, allSeen, ldSeen>>
    /\ UNCHANGED mapVars
    /\ UNCHANGED decVars
    /\ UNCHANGED defVars

\* toJSON() of the PresentationSubmission the factory returned.
CallPresentationSubmissionToJSON ==
    /\ opName = "PresentationSubmission.fromJSON"
    /\ opRet.ok
    /\ opJson = NoSecond
    /\ opJson' = [op |-> "toJSON", r |-> PresentationSubmissionToJSON(opRet.v)]
    /\ UNCHANGED <<opName, opArg, opRet, allInstance, allCount, allSeen,
                   ldSeen>>
    /\ UNCHANGED mapVars
    /\ UNCHANGED decVars
    /\ UNCHANGED defVars

\* Path strings: two that JsonPathOps.isValid accepts, two that it does
\* not.
PathTexts == {GoodPath, <<"$">>, BadPath, <<>>}

\* A descriptor map JSON with one nesting level per path, outermost first.
RECURSIVE ChainJson(_)
ChainJson(paths) ==
    MkObj({<<"id", JStr(<<"c">>)>>,
           <<"format", JStr(<<"j", "w", "t">>)>>,
           <<"path", JStr(Head(paths))>>,
           <<"path_nested",
             IF Len(paths) = 1 THEN Undefined
             ELSE ChainJson(Tail(paths))>>})

DmInputs ==
    {ChainJson(paths) : paths \in SeqsUpTo(PathTexts, PsMaxNest + 1) \ {<<>>}}

\* DescriptorMap.fromJSON(j)
CallDescriptorMapFromJSON(j) ==
    /\ opName = "none"
    /\ opName' = "DescriptorMap.fromJSON"
    /\ opArg' = j
    /\ opRet' = DescriptorMapFromJSON(j)
    /\ opJson' = NoSecond
    /\ UNCHANGED <<allInstance, allCount, allSeen, ldSeen>>
    /\ UNCHANGED mapVars
    /\ UNCHANGED decVars
    /\ UNCHANGED defVars

\* The values given to the Id constructor.
IdArgs == {JStr(<<"a">>), JStr(<<>>), JNull, Undefined}

\* new Id(value): the constructor has an empty body.
CallNewId(value) ==
    /\ opName = "none"
    /\ opName' = "new Id"
    /\ opArg' = value
    /\ opRet' = Ok(NewId(value))
    /\ opJson' = NoSecond
    /\ UNCHANGED <<allInstance, allCount, allSeen, ldSeen>>
    /\ UNCHANGED mapVars
    /\ UNCHANGED decVars
    /\ UNCHANGED defVars

NextPS ==
    \/ \E value \in IdArgs : CallNewId(value)
    \/ \E j \in PsInputs : CallPresentationSubmissionFromJSON(j)
    \/ CallPresentationSubmissionToJSON
    \/ \E j \in DmInputs : CallDescriptorMapFromJSON(j)

SpecPS == InitDecode /\ [][NextPS]_vars

\* The keys of a JSON object.
KeysOf(v) == DOMAIN v.m

\* A descriptor map JSON a written from b: the same id, format and path,
\* and the same path_nested all the way down, nothing else.
RECURSIVE SameMap(_, _)
SameMap(a, b) ==
    /\ KeysOf(a) \subseteq {"id", "format", "path", "path_nested"}
    /\ Member(a, "id") = Member(b, "id")
    /\ Member(a, "format") = Member(b, "format")
    /\ Member(a, "path") = Member(b, "path")
    /\ (Member(a, "path_nested") = Undefined)
          <=> (Member(b, "path_nested") = Undefined)
    /\ Member(b, "path_nested") # Undefined =>
          SameMap(Member(a, "path_nested"), Member(b, "path_nested"))

\* A submission JSON a written from b: the same id and definition_id and
\* the same descriptor maps in the same order, nothing else.
SameSubmission(a, b) ==
    /\ KeysOf(a) = {"id", "definition_id", "descriptor_map"}
    /\ Member(a, "id") = Member(b, "id")
    /\ Member(a, "definition_id") = Member(b, "definition_id")
    /\ Len(Member(a, "descriptor_map").a) = Len(Member(b, "descriptor_map").a)
    /\ \A i \in DOMAIN Member(b, "descriptor_map").a :
          SameMap(Member(a, "descriptor_map").a[i],
                  Member(b, "descriptor_map").a[i])

\* No key outside the schema, at top level or in a descriptor map.
RECURSIVE MapHasSchemaKeysOnly(_)
MapHasSchemaKeysOnly(v) ==
    /\ KeysOf(v) \subseteq {"id", "format", "path", "path_nested"}
    /\ Member(v, "path_nested") # Undefined =>
          MapHasSchemaKeysOnly(Member(v, "path_nested"))

HasSchemaKeysOnly(v) ==
    /\ KeysOf(v) \subseteq {"id", "definition_id", "descriptor_map"}
    /\ \A i \in DOMAIN Member(v, "descriptor_map").a :
          MapHasSchemaKeysOnly(Member(v, "descriptor_map").a[i])

\* C20: for every presentation submission JSON x the schema accepts,
\* PresentationSubmission.fromJSON(x) succeeds and its toJSON() carries
\* the id, the definition_id and every descriptor map's id, format, path
\* and path_nested of x in order; it is equal to x when x has no key
\* outside the schema.
C20_SubmissionRoundTrip ==
    (opName = "PresentationSubmission.fromJSON"
        /\ presentationSubmissionSchemaOk(opArg)) =>
        /\ opRet.ok
        /\ opJson.op = "toJSON" =>
              /\ opJson.r.ok
              /\ SameSubmission(opJson.r.v, opArg)
              /\ HasSchemaKeysOnly(opArg) => opJson.r.v = opArg

\* C20 witness: a submission with two descriptor maps, the first with
\* path_nested two levels deep, and no key outside the schema went through
\* fromJSON and toJSON.
C20_Witness ==
    /\ opName = "PresentationSubmission.fromJSON"
    /\ opJson.op = "toJSON"
    /\ HasSchemaKeysOnly(opArg)
    /\ Len(Member(opArg, "descriptor_map").a) = 2
    /\ Member(Member(Member(opArg, "descriptor_map").a[1], "path_nested"),
              "path_nested") # Undefined
    /\ opJson.r.v = opArg

\* The path strings of a descriptor map JSON, of the map itself and of
\* every path_nested descendant.
RECURSIVE JsonPathsOf(_)
JsonPathsOf(j) ==
    {Member(j, "path").s} \cup
        (IF Member(j, "path_nested") = Undefined THEN {}
         ELSE JsonPathsOf(Member(j, "path_nested")))

\* The path values a DescriptorMap holds at every nesting depth.
RECURSIVE HeldPathsOf(_)
HeldPathsOf(dm) ==
    {dm.path.value} \cup
        (IF dm.pathNested = Undefined THEN {} ELSE HeldPathsOf(dm.pathNested))

\* C21: DescriptorMap.fromJSON fails with 'Invalid JSON path' whenever the
\* path of the map or of a path_nested descendant is not accepted by
\* JsonPathOps.isValid, and every DescriptorMap it returns holds an
\* accepted path at every nesting depth.
C21_InvalidPathAtAnyDepthFails ==
    opName = "DescriptorMap.fromJSON" =>
        /\ (\E p \in JsonPathsOf(opArg) : ~isValid(p)) =>
              opRet = ThrowError("Invalid JSON path")
        /\ opRet.ok => \A p \in HeldPathsOf(opRet.v) : isValid(p)

\* C21 witness: the map's own path and its path_nested's path are
\* accepted, the innermost path two levels down is not, and the factory
\* threw.
C21_Witness ==
    /\ opName = "DescriptorMap.fromJSON"
    /\ isValid(Member(opArg, "path").s)
    /\ Member(opArg, "path_nested") # Undefined
    /\ isValid(Member(Member(opArg, "path_nested"), "path").s)
    /\ Member(Member(opArg, "path_nested"), "path_nested") # Undefined
    /\ ~isValid(Member(Member(Member(opArg, "path_nested"), "path_nested"),
                       "path").s)
    /\ ~opRet.ok

(***************************************************************************)
(* JsonPathOps.isValid and JsonPathOps.getJsonAtPath                       *)
(***************************************************************************)
\* The keys of the documents, in the order the documents carry them.
DocKeys == <<"s", "b", "a">>

\* The digit character of an index below ten.
DigitChars == <<"0", "1", "2", "3", "4", "5", "6", "7", "8", "9">>

RECURSIVE TextOf(_)
RECURSIVE TextOfItems(_)
RECURSIVE TextOfMembers(_, _)

\* The texts of the items of an array joined by commas.
TextOfItems(a) ==
    IF a = <<>> THEN <<>>
    ELSE IF Len(a) = 1 THEN TextOf(a[1])
    ELSE TextOf(a[1]) \o <<",">> \o TextOfItems(Tail(a))

\* The "key":value texts of an object joined by commas, keys in order.
TextOfMembers(m, keys) ==
    IF keys = <<>> THEN <<>>
    ELSE LET rest == TextOfMembers(m, Tail(keys))
         IN  IF Head(keys) \notin DOMAIN m THEN rest
             ELSE <<"\"", Head(keys), "\"", ":">> \o TextOf(m[Head(keys)])
                    \o (IF rest = <<>> THEN <<>> ELSE <<",">> \o rest)

\* The JSON text of a value that is not undefined, as a sequence of
\* characters.
TextOf(v) ==
    CASE v.t = "null" -> <<"n", "u", "l", "l">>
      [] v.t = "string" -> <<"\"">> \o v.s \o <<"\"">>
      [] v.t = "number" -> <<DigitChars[v.n + 1]>>
      [] v.t = "array" -> <<"[">> \o TextOfItems(v.a) \o <<"]">>
      [] v.t = "object" -> <<"{">> \o TextOfMembers(v.m, DocKeys) \o <<"}">>

\* JSON.stringify(v): the text, undefined for undefined.
Stringify(v) == IF v = Undefined THEN Undefined ELSE JStr(TextOf(v))

\* The segments of a path text after the leading "$": .x gives the child
\* named x, [d] the index d, [*] every item.
RECURSIVE PathSegments(_, _)
PathSegments(path, i) ==
    IF i > Len(path) THEN <<>>
    ELSE IF path[i] = "."
    THEN <<[kind |-> "child", name |-> path[i + 1]]>>
            \o PathSegments(path, i + 2)
    ELSE IF path[i + 1] = "*"
    THEN <<[kind |-> "all", name |-> "*"]>> \o PathSegments(path, i + 3)
    ELSE <<[kind |-> "index", name |-> path[i + 1]]>>
            \o PathSegments(path, i + 3)

\* The index a digit character stands for.
IndexOf(d) == CHOOSE n \in 0..9 : DigitChars[n + 1] = d

\* The values one segment selects from one value, in document order.
SelectFrom(v, seg) ==
    CASE seg.kind = "child" ->
            IF v.t = "object" /\ seg.name \in DOMAIN v.m
            THEN <<v.m[seg.name]>> ELSE <<>>
      [] seg.kind = "index" ->
            IF v.t = "array" /\ IndexOf(seg.name) < Len(v.a)
            THEN <<v.a[IndexOf(seg.name) + 1]>> ELSE <<>>
      [] seg.kind = "all" ->
            IF v.t = "array" THEN v.a ELSE <<>>

RECURSIVE SelectFromAll(_, _)
SelectFromAll(vals, seg) ==
    IF vals = <<>> THEN <<>>
    ELSE SelectFrom(Head(vals), seg) \o SelectFromAll(Tail(vals), seg)

RECURSIVE Evaluate(_, _)
Evaluate(vals, segs) ==
    IF segs = <<>> THEN vals
    ELSE Evaluate(SelectFromAll(vals, Head(segs)), Tail(segs))

\* JSONPath({ path, json }): the array of the values the path matches.
JSONPath(path, doc) == Evaluate(<<doc>>, PathSegments(path, 2))

\* A document with one book per author: {"s":{"b":[{"a":"X"}, ...]}}
DocOf(authors) ==
    MkObj({<<"s", MkObj({<<"b",
        JArr([i \in DOMAIN authors |->
                 MkObj({<<"a", JStr(<<authors[i]>>)>>})])>>})>>})

Docs == {DocOf(authors) : authors \in SeqsUpTo({"X", "Y"}, MaxBooks)}

\* JSON.parse(jsonString) of the text of a document.
JSONParse(text) == CHOOSE doc \in Docs : TextOf(doc) = text

DocPaths ==
    {<<"$">>,
     <<"$", ".", "s">>,
     <<"$", ".", "s", ".", "b">>,
     <<"$", ".", "s", ".", "b", "[", "0", "]">>,
     <<"$", ".", "s", ".", "b", "[", "0", "]", ".", "a">>,
     <<"$", ".", "s", ".", "b", "[", "*", "]", ".", "a">>,
     <<"$", ".", "x">>}

\* JsonPathOps.getJsonAtPath: JSON.stringify(result[0])
getJsonAtPath(jsonPath, jsonString) ==
    LET matches == JSONPath(jsonPath, JSONParse(jsonString))
    IN  Ok(Stringify(IF matches = <<>> THEN Undefined ELSE matches[1]))

\* The characters the path strings are written with.
PathChars == {"$", ".", "a", "[", "0", "]", "*"}

PathStrings ==
    SeqsUpTo(PathChars, MaxPathLen)
    \cup {<<"$", ".", "a", ".", "b", "[", "0", "]">>,
          <<"$", ".", "a", " ", "b">>}
    \cup DocPaths

\* JsonPathOps.isValid(path)
CallIsValid(path) ==
    /\ opName = "none"
    /\ opName' = "JsonPathOps.isValid"
    /\ opArg' = JStr(path)
    /\ opRet' = Ok(JBool(isValid(path)))
    /\ opJson' = NoSecond
    /\ UNCHANGED <<allInstance, allCount, allSeen, ldSeen>>
    /\ UNCHANGED mapVars
    /\ UNCHANGED decVars
    /\ UNCHANGED defVars

\* JsonPathOps.getJsonAtPath(jsonPath, jsonString)
CallGetJsonAtPath(jsonPath, doc) ==
    /\ opName = "none"
    /\ opName' = "JsonPathOps.getJsonAtPath"
    /\ opArg' = [jsonPath |-> JStr(jsonPath), jsonString |-> Stringify(doc)]
    /\ opRet' = getJsonAtPath(jsonPath, TextOf(doc))
    /\ opJson' = NoSecond
    /\ UNCHANGED <<allInstance, allCount, allSeen, ldSeen>>
    /\ UNCHANGED mapVars
    /\ UNCHANGED decVars
    /\ UNCHANGED defVars

NextPath ==
    \/ \E path \in PathStrings : CallIsValid(path)
    \/ \E jsonPath \in DocPaths, doc \in Docs :
           CallGetJsonAtPath(jsonPath, doc)

SpecPath == InitDecode /\ [][NextPath]_vars

\* The whole string is "$" followed by segments .identifier or [index].
WholeStringInGrammar(path) ==
    /\ path # <<>>
    /\ path[1] = "$"
    /\ (Len(path) + 1) \in StarEnds(path, {2})

\* C22: JsonPathOps.isValid(path) is true if and only if the whole string
\* is "$" followed by zero or more segments .identifier or [index].
C22_ValidIffWholeStringInGrammar ==
    opName = "JsonPathOps.isValid" =>
        (opRet.v.b <=> WholeStringInGrammar(opArg.s))

\* C23: getJsonAtPath returns the text of the whole array of the values
\* the path matches.
C23_ReturnsWholeMatchArray ==
    opName = "JsonPathOps.getJsonAtPath" =>
        opRet = Ok(Stringify(JArr(JSONPath(opArg.jsonPath.s,
                                           JSONParse(opArg.jsonString.s)))))

\* One flat requirement object: keys among the eight, exactly one of from
\* and from_nested, the rule tag and the group name as strings, count,
\* min and max as numbers, and every from_nested element flat in turn.
RECURSIVE FlatRequirement(_)
FlatRequirement(j) ==
    /\ KeysOf(j) \subseteq {"name", "purpose", "from", "from_nested", "rule",
                            "count", "min", "max"}
    /\ ("from" \in KeysOf(j)) # ("from_nested" \in KeysOf(j))
    /\ Member(j, "rule") \in {RuleAll, RulePick}
    /\ \A k \in KeysOf(j) \cap {"count", "min", "max"} : j.m[k].t = "number"
    /\ "from" \in KeysOf(j) => Member(j, "from").t = "string"
    /\ "from_nested" \in KeysOf(j) =>
          /\ Member(j, "from_nested").t = "array"
          /\ \A i \in DOMAIN Member(j, "from_nested").a :
                FlatRequirement(Member(j, "from_nested").a[i])

C25_IdRejectsEmpty ==
    /\ (opName = "new Id" /\ opArg \in {JStr(<<>>), JNull, Undefined}) =>
          opRet = ThrowError("value is required")
    /\ (opName = "PresentationSubmission.fromJSON" /\ opRet.ok) =>
          opRet.v.id.value # <<>>

\* C26: toJSON of an instance that a constructor or fromJSON factory
\* returned does not throw.
C26_ToJSONNeverThrows ==
    opJson.op = "toJSON" => opJson.r.ok

\* A DescriptorMap with a non-empty id, a format that is a text and a
\* path JsonPathOps.isValid accepts, at every nesting depth.
RECURSIVE SoundMap(_)
SoundMap(dm) ==
    /\ dm.id.value # <<>>
    /\ dm.format \in Seq({dm.format[i] : i \in DOMAIN dm.format})
    /\ isValid(dm.path.value)
    /\ dm.pathNested # Undefined => SoundMap(dm.pathNested)

\* C27: a success Result of mapToPS carries a PresentationSubmission with
\* a non-empty id and definition_id and sound descriptor maps at every
\* nesting depth.
C27_SuccessCarriesSoundSubmission ==
    result.kind = "success" =>
        /\ result.value.id.value # <<>>
        /\ result.value.definition_id.value # <<>>
        /\ \A i \in DOMAIN result.value.descriptor_map :
              SoundMap(result.value.descriptor_map[i])

\* C27 witness: mapToPS succeeded with a nested descriptor map on an
\* input that also carries, at another place, a submission with an empty
\* id.
C27_Witness ==
    /\ result.kind = "success"
    /\ result.value.descriptor_map # <<>>
    /\ result.value.descriptor_map[1].pathNested # Undefined
    /\ \/ Member(json, "id") = JStr(<<>>)
       \/ Member(json, "vp") # Undefined
            /\ Member(json, "vp") # JNull
            /\ Member(Member(json, "vp"), presentationSubmissionKey) = SubNoId

\* C30 as claimed: Constraints.of treats an empty field list like an
\* absent one: with a limitDisclosure it returns that limitDisclosure,
\* without one it returns undefined.
C30_EmptyListLikeAbsent ==
    (opName = "Constraints.of" /\ opArg.fs = JArr(<<>>)) =>
        /\ opRet = ConstraintsOf(Undefined, opArg.limitDisclosure)
        /\ opRet = Ok(opArg.limitDisclosure)

====
